---- MODULE Spec2Model ----
(***************************************************************************)
(* Model of the dpds-builder descriptor verifier: the format validators    *)
(* and zod schemas of zodSchemas.ts, the error formatting and the          *)
(* verification pipeline of lib/verify.ts.                                 *)
(*                                                                         *)
(* JavaScript values are tagged records [t, v]:                            *)
(*   undefined, null, string (v = sequence of one-character strings),      *)
(*   number, array (v = sequence of values) and object (v = sequence of    *)
(*   [k, v] pairs in the object's own-key order).                          *)
(***************************************************************************)
EXTENDS Integers, Sequences, FiniteSets, TLC

\* ------------------------------------------------------------------------
\* Bounds
\* ------------------------------------------------------------------------
MaxPorts == 1

\* ------------------------------------------------------------------------
\* JavaScript values
\* ------------------------------------------------------------------------
undefined == [t |-> "undefined", v |-> <<>>]
JNull == [t |-> "null", v |-> <<>>]
JStr(s) == [t |-> "string", v |-> s]
\* a number, held as its decimal text
JNum(n) == [t |-> "number", v |-> <<ToString(n)>>]
JArr(xs) == [t |-> "array", v |-> xs]
JObj(ps) == [t |-> "object", v |-> ps]
P(key, val) == [k |-> key, v |-> val]

\* own keys of an object, in order
Keys(o) == [i \in 1..Len(o.v) |-> o.v[i].k]
HasKey(o, key) == \E i \in 1..Len(o.v) : o.v[i].k = key
\* o[key]: the property's value, undefined when the key is absent
Get(o, key) ==
  IF HasKey(o, key)
    THEN o.v[CHOOSE i \in 1..Len(o.v) : o.v[i].k = key].v
    ELSE undefined

\* ------------------------------------------------------------------------
\* Characters
\* ------------------------------------------------------------------------
Digit == {"0", "1", "2", "3", "4", "5", "6", "7", "8", "9"}
Lower == {"a", "b", "c", "d", "e", "f", "g", "h", "i", "j", "k", "l", "m",
          "n", "o", "p", "q", "r", "s", "t", "u", "v", "w", "x", "y", "z"}
Upper == {"A", "B", "C", "D", "E", "F", "G", "H", "I", "J", "K", "L", "M",
          "N", "O", "P", "Q", "R", "S", "T", "U", "V", "W", "X", "Y", "Z"}
HexLetter == {"a", "b", "c", "d", "e", "f", "A", "B", "C", "D", "E", "F"}
Alnum == Lower \cup Upper \cup Digit
\* \w
WordChar == Alnum \cup {"_"}
\* \s (the members that occur in the modelled inputs)
WhiteSpace == {" ", "\t", "\n", "\r"}
LineTerminator == {"\n", "\r"}

AllIn(s, class) == \A i \in 1..Len(s) : s[i] \in class
StartsWith(s, pre) == Len(s) >= Len(pre) /\ SubSeq(s, 1, Len(pre)) = pre
Drop(s, n) == SubSeq(s, n + 1, Len(s))

\* the pieces of s between occurrences of the character sep
RECURSIVE Split(_, _)
Split(s, sep) ==
  IF \A i \in 1..Len(s) : s[i] # sep
    THEN <<s>>
    ELSE LET i == CHOOSE j \in 1..Len(s) :
                    s[j] = sep /\ \A h \in 1..(j - 1) : s[h] # sep
         IN  <<SubSeq(s, 1, i - 1)>> \o Split(Drop(s, i), sep)

\* ------------------------------------------------------------------------
\* Custom validators (zodSchemas.ts)
\* ------------------------------------------------------------------------
\* /^[0-9a-f]{8}-[0-9a-f]{4}-[0-9a-f]{4}-[0-9a-f]{4}-[0-9a-f]{12}$/i
uuidRegex(s) ==
  /\ Len(s) = 36
  /\ \A i \in 1..36 :
       IF i \in {9, 14, 19, 24} THEN s[i] = "-"
                                ELSE s[i] \in Digit \cup HexLetter

\* [a-zA-Z0-9][\w\.\-]*
NamespaceSeg(s) ==
  Len(s) >= 1 /\ s[1] \in Alnum /\ AllIn(s, WordChar \cup {".", "-"})
\* [a-zA-Z0-9][\w\-]*
NameSeg(s) == Len(s) >= 1 /\ s[1] \in Alnum /\ AllIn(s, WordChar \cup {"-"})

\* /^urn:dpds:[a-zA-Z0-9][\w\.\-]*:dataproducts:[a-zA-Z0-9][\w\-]*:[0-9]+
\*   (:(input|output)ports:[a-zA-Z0-9][\w\-]*)?$/
\* no character class of the expression contains ":", so a match is a
\* split at the colons
fqnRegex(s) ==
  LET seg == Split(s, ":")
  IN  /\ Len(seg) \in {6, 8}
      /\ seg[1] = <<"u", "r", "n">>
      /\ seg[2] = <<"d", "p", "d", "s">>
      /\ NamespaceSeg(seg[3])
      /\ seg[4] = <<"d", "a", "t", "a", "p", "r", "o", "d", "u", "c", "t", "s">>
      /\ NameSeg(seg[5])
      /\ Len(seg[6]) >= 1 /\ AllIn(seg[6], Digit)
      /\ Len(seg) = 8 =>
           /\ seg[7] \in {<<"i", "n", "p", "u", "t", "p", "o", "r", "t", "s">>,
                          <<"o", "u", "t", "p", "u", "t", "p", "o", "r", "t", "s">>}
           /\ NameSeg(seg[8])

\* /^[a-zA-Z0-9]+$/
alphanumericRegex(s) == Len(s) >= 1 /\ AllIn(s, Alnum)

\* /^[a-zA-Z0-9][\w\.\-]*$/
domainRegex(s) == NamespaceSeg(s)

\* /^[a-z][a-zA-Z0-9]*$/
camelCaseRegex(s) == Len(s) >= 1 /\ s[1] \in Lower /\ AllIn(s, Alnum)

\* \d+\.\d+\.\d+
VersionCore(s) ==
  LET seg == Split(s, ".")
  IN  Len(seg) = 3 /\ \A i \in 1..3 : Len(seg[i]) >= 1 /\ AllIn(seg[i], Digit)
\* (c[a-zA-Z0-9\.]+)?
VersionSuffix(s, c) ==
  s = <<>> \/ (Len(s) >= 2 /\ s[1] = c /\ AllIn(Tail(s), Alnum \cup {"."}))

\* /^\d+\.\d+\.\d+(-[a-zA-Z0-9\.]+)?(\+[a-zA-Z0-9\.]+)?$/
versionRegex(s) ==
  \E a \in 0..Len(s) : \E b \in a..Len(s) :
    /\ VersionCore(SubSeq(s, 1, a))
    /\ VersionSuffix(SubSeq(s, a + 1, b), "-")
    /\ VersionSuffix(SubSeq(s, b + 1, Len(s)), "+")

\* the /i flag: compare letters in lower case
ToLower(c) ==
  IF c \in Upper
    THEN CHOOSE l \in Lower :
           \E i \in 1..26 :
             /\ <<"a", "b", "c", "d", "e", "f", "g", "h", "i", "j", "k", "l",
                  "m", "n", "o", "p", "q", "r", "s", "t", "u", "v", "w", "x",
                  "y", "z">>[i] = l
             /\ <<"A", "B", "C", "D", "E", "F", "G", "H", "I", "J", "K", "L",
                  "M", "N", "O", "P", "Q", "R", "S", "T", "U", "V", "W", "X",
                  "Y", "Z">>[i] = c
    ELSE c
LowerCase(s) == [i \in 1..Len(s) |-> ToLower(s[i])]

\* /^(https?|ftp):\/\/[^\s/$.?#].[^\s]*$/i
uriRegex(s) ==
  \E scheme \in {<<"h", "t", "t", "p">>, <<"h", "t", "t", "p", "s">>,
                 <<"f", "t", "p">>} :
    LET pre  == scheme \o <<":", "/", "/">>
        rest == Drop(s, Len(pre))
    IN  /\ StartsWith(LowerCase(s), pre)
        /\ Len(rest) >= 2
        /\ rest[1] \notin WhiteSpace \cup {"/", "$", ".", "?", "#"}
        /\ rest[2] \notin LineTerminator
        /\ \A i \in 3..Len(rest) : rest[i] \notin WhiteSpace

NoSpace(s) == \A i \in 1..Len(s) : s[i] \notin WhiteSpace

\* /^(\.{0,2}\/[^\s]*|[a-z][a-z0-9+\-.]*:[^\s]*|#[^\s]*)$/i
uriReferenceRegex(s) ==
  \/ \E n \in 0..2 :
       /\ Len(s) >= n + 1
       /\ \A i \in 1..n : s[i] = "."
       /\ s[n + 1] = "/"
       /\ NoSpace(s)
  \/ \E c \in 2..Len(s) :
       /\ s[c] = ":"
       /\ s[1] \in Lower \cup Upper
       /\ AllIn(SubSeq(s, 2, c - 1), Alnum \cup {"+", "-", "."})
       /\ NoSpace(Drop(s, c))
  \/ Len(s) >= 1 /\ s[1] = "#" /\ NoSpace(s)

\* regex.test(undefined) tests the text "undefined"
isValidUuid_NoUndefined(val) ==
  uuidRegex(IF val = undefined
              THEN <<"u", "n", "d", "e", "f", "i", "n", "e", "d">> ELSE val.v)

\* each validator: val === undefined || regex.test(val)
isValidUuid(val) == val = undefined \/ uuidRegex(val.v)
isValidFqn(val) == val = undefined \/ fqnRegex(val.v)
isValidAlphanumeric(val) == val = undefined \/ alphanumericRegex(val.v)
isValidDomain(val) == val = undefined \/ domainRegex(val.v)
isValidCamelCase(val) == val = undefined \/ camelCaseRegex(val.v)
isValidVersion(val) == val = undefined \/ versionRegex(val.v)
isValidUri(val) == val = undefined \/ uriRegex(val.v)
isValidUriReference(val) == val = undefined \/ uriReferenceRegex(val.v)

\* ------------------------------------------------------------------------
\* Own-property order of JavaScript objects: integer-like keys first, in
\* ascending numeric order, then the other keys in insertion order
\* ------------------------------------------------------------------------
MaxIndex == 3
IsIndexKey(key) == \E i \in 0..MaxIndex : ToString(i) = key
IndexVal(key) == CHOOSE i \in 0..MaxIndex : ToString(i) = key

\* obj[key] = val on the pair list ps of an object
SetPair(ps, key, val) ==
  IF \E i \in 1..Len(ps) : ps[i].k = key
    THEN [i \in 1..Len(ps) |-> IF ps[i].k = key THEN P(key, val) ELSE ps[i]]
    ELSE IF IsIndexKey(key)
      THEN LET n == Cardinality({i \in 1..Len(ps) :
                      IsIndexKey(ps[i].k) /\ IndexVal(ps[i].k) < IndexVal(key)})
           IN  SubSeq(ps, 1, n) \o <<P(key, val)>> \o SubSeq(ps, n + 1, Len(ps))
      ELSE Append(ps, P(key, val))

\* the object built by assigning the pairs of ps in order
RECURSIVE Assign(_, _)
Assign(acc, ps) ==
  IF ps = <<>> THEN acc
  ELSE Assign(SetPair(acc, Head(ps).k, Head(ps).v), Tail(ps))

\* ------------------------------------------------------------------------
\* zod: schema constructors
\* ------------------------------------------------------------------------
ZString == [kind |-> "string"]
ZNumber == [kind |-> "number"]
ZAny == [kind |-> "any"]
ZOptional(s) == [kind |-> "optional", inner |-> s]
ZRefine(s, fn, msg) == [kind |-> "refine", inner |-> s, check |-> fn, message |-> msg]
ZArray(s) == [kind |-> "array", element |-> s]
ZRecord(s) == [kind |-> "record", valueType |-> s]
ZUnion(opts) == [kind |-> "union", options |-> opts]
ZLazy(s) == [kind |-> "lazy", getter |-> s]
ZObject_Passthrough(sh) ==
  [kind |-> "object", shape |-> sh, unknownKeys |-> "passthrough"]
\* z.object(shape): unknown keys are stripped
ZObject(sh) == [kind |-> "object", shape |-> sh, unknownKeys |-> "strip"]
Passthrough_Ignored(s) == s
\* .passthrough()
Passthrough(s) == [s EXCEPT !.unknownKeys = "passthrough"]
F(key, s) == [k |-> key, s |-> s]

\* .extend(augmentation): {...shape, ...augmentation}
RECURSIVE ExtendShape(_, _)
ExtendShape(sh, aug) ==
  IF aug = <<>> THEN sh
  ELSE LET f == Head(aug)
           sh2 == IF \E i \in 1..Len(sh) : sh[i].k = f.k
                    THEN [i \in 1..Len(sh) |-> IF sh[i].k = f.k THEN f ELSE sh[i]]
                    ELSE Append(sh, f)
       IN  ExtendShape(sh2, Tail(aug))
Extend(s, aug) == [s EXCEPT !.shape = ExtendShape(s.shape, aug)]

\* the refinement functions passed to .refine()
RunCheck(fn, val) ==
  CASE fn = "isValidUuid" -> isValidUuid(val)
    [] fn = "isValidFqn" -> isValidFqn(val)
    [] fn = "isValidAlphanumeric" -> isValidAlphanumeric(val)
    [] fn = "isValidDomain" -> isValidDomain(val)
    [] fn = "isValidCamelCase" -> isValidCamelCase(val)
    [] fn = "isValidVersion" -> isValidVersion(val)
    [] fn = "isValidUri" -> isValidUri(val)
    [] fn = "isValidUriReference" -> isValidUriReference(val)

\* ------------------------------------------------------------------------
\* zod: parsing (schema.safeParse as called by validateWithSchema)
\* ------------------------------------------------------------------------
Issue(c, p, m, ue) == [code |-> c, path |-> p, message |-> m, unionErrors |-> ue]
\* the default error map's message for an invalid_type issue
InvalidType(expected, val, path) ==
  Issue("invalid_type", path,
        IF val.t = "undefined" THEN "Required"
        ELSE "Expected " \o expected \o ", received " \o val.t,
        <<>>)
OK(val) == [status |-> "valid", issues |-> <<>>, value |-> val]
INVALID(is) == [status |-> "aborted", issues |-> is, value |-> undefined]

\* the status of a merged object or array: aborted if any member is
\* aborted, else dirty if any is dirty
MergeStatus(rs) ==
  IF \E i \in 1..Len(rs) : rs[i].status = "aborted" THEN "aborted"
  ELSE IF \E i \in 1..Len(rs) : rs[i].status = "dirty" THEN "dirty"
  ELSE "valid"

RECURSIVE Flatten(_)
Flatten(ss) == IF ss = <<>> THEN <<>> ELSE Head(ss) \o Flatten(Tail(ss))

AllIssues(rs) == Flatten([i \in 1..Len(rs) |-> rs[i].issues])

RECURSIVE SelectPairs(_, _)
SelectPairs(ps, keep) ==
  IF ps = <<>> THEN <<>>
  ELSE (IF keep[1] THEN <<Head(ps)>> ELSE <<>>)
         \o SelectPairs(Tail(ps), Tail(keep))

RECURSIVE ZParse(_, _, _)
ZParse(s, val, path) ==
  CASE s.kind = "string" ->
         IF val.t = "string" THEN OK(val)
         ELSE INVALID(<<InvalidType("string", val, path)>>)
    [] s.kind = "number" ->
         IF val.t = "number" THEN OK(val)
         ELSE INVALID(<<InvalidType("number", val, path)>>)
    [] s.kind = "any" -> OK(val)
    [] s.kind = "lazy" -> ZParse(s.getter, val, path)
    [] s.kind = "optional" ->
         IF val.t = "undefined" THEN OK(undefined)
         ELSE ZParse(s.inner, val, path)
    [] s.kind = "refine" ->
         LET inner == ZParse(s.inner, val, path)
         IN  IF inner.status = "aborted" THEN INVALID(inner.issues)
             ELSE IF RunCheck(s.check, inner.value)
               THEN inner
               ELSE [status |-> "dirty",
                     issues |-> Append(inner.issues,
                                  Issue("custom", path, s.message, <<>>)),
                     value |-> inner.value]
    [] s.kind = "array" ->
         IF val.t # "array" THEN INVALID(<<InvalidType("array", val, path)>>)
         ELSE LET rs == [i \in 1..Len(val.v) |->
                           ZParse(s.element, val.v[i],
                                  Append(path, ToString(i - 1)))]
                  st == MergeStatus(rs)
              IN  IF st = "aborted" THEN INVALID(AllIssues(rs))
                  ELSE [status |-> st, issues |-> AllIssues(rs),
                        value |-> JArr([i \in 1..Len(rs) |-> rs[i].value])]
    [] s.kind = "record" ->
         IF val.t # "object" THEN INVALID(<<InvalidType("object", val, path)>>)
         ELSE LET rs == [i \in 1..Len(val.v) |->
                           ZParse(s.valueType, val.v[i].v,
                                  Append(path, val.v[i].k))]
                  st == MergeStatus(rs)
              IN  IF st = "aborted" THEN INVALID(AllIssues(rs))
                  ELSE [status |-> st, issues |-> AllIssues(rs),
                        value |-> JObj(Assign(<<>>,
                          [i \in 1..Len(rs) |-> P(val.v[i].k, rs[i].value)]))]
    [] s.kind = "object" ->
         IF val.t # "object" THEN INVALID(<<InvalidType("object", val, path)>>)
         ELSE LET sh == s.shape
                  rs == [i \in 1..Len(sh) |->
                           ZParse(sh[i].s, Get(val, sh[i].k),
                                  Append(path, sh[i].k))]
                  st == MergeStatus(rs)
                  \* shape keys whose value is defined or that the input has
                  known == SelectPairs(
                             [i \in 1..Len(sh) |-> P(sh[i].k, rs[i].value)],
                             [i \in 1..Len(sh) |->
                                rs[i].value.t # "undefined" \/ HasKey(val, sh[i].k)])
                  extra == IF s.unknownKeys = "passthrough"
                             THEN SelectPairs(val.v,
                                    [i \in 1..Len(val.v) |->
                                       \A j \in 1..Len(sh) : sh[j].k # val.v[i].k])
                             ELSE <<>>
              IN  IF st = "aborted" THEN INVALID(AllIssues(rs))
                  ELSE [status |-> st, issues |-> AllIssues(rs),
                        value |-> JObj(Assign(<<>>, known \o extra))]
    [] s.kind = "union" ->
         LET rs == [i \in 1..Len(s.options) |-> ZParse(s.options[i], val, path)]
         IN  IF \E i \in 1..Len(rs) : rs[i].status = "valid"
               THEN LET i == CHOOSE j \in 1..Len(rs) :
                               /\ rs[j].status = "valid"
                               /\ \A h \in 1..(j - 1) : rs[h].status # "valid"
                    IN  OK(rs[i].value)
             ELSE IF \E i \in 1..Len(rs) : rs[i].status = "dirty"
               THEN LET i == CHOOSE j \in 1..Len(rs) :
                               /\ rs[j].status = "dirty"
                               /\ \A h \in 1..(j - 1) : rs[h].status # "dirty"
                    IN  rs[i]
             ELSE INVALID(<<Issue("invalid_union", path, "Invalid input",
                              SelectPairs([i \in 1..Len(rs) |-> rs[i].issues],
                                [i \in 1..Len(rs) |-> rs[i].issues # <<>>]))>>)

\* ------------------------------------------------------------------------
\* The schemas (zodSchemas.ts)
\* ------------------------------------------------------------------------
FqnMessage ==
  "fullyQualifiedName must be a URN of the form urn:dpds:{mesh-namespace}:dataproducts:{product-name}:{product-major-version} or urn:dpds:{mesh-namespace}:dataproducts:{product-name}:{product-major-version}:(input|output)ports:{port-name}"

HrefSchema == ZRefine(ZString, "isValidUri", "$href must be a valid URI")

entitySchema ==
  Passthrough(ZObject(<<
    F("id", ZRefine(ZOptional(ZString), "isValidUuid",
                    "id must be a valid UUID format")),
    F("fullyQualifiedName", ZRefine(ZOptional(ZString), "isValidFqn", FqnMessage)),
    F("entityType", ZRefine(ZOptional(ZString), "isValidAlphanumeric",
                    "entityType must contain only alphanumeric characters")),
    F("name", ZRefine(ZString, "isValidCamelCase",
                    "name must be in a valid format (camelCase)")),
    F("version", ZRefine(ZString, "isValidVersion",
                    "version must follow semantic versioning format")),
    F("displayName", ZOptional(ZString)),
    F("description", ZOptional(ZString)),
    F("componentGroup", ZOptional(ZString)),
    F("tags", ZOptional(ZArray(ZString))),
    F("externalDocs", ZOptional(ZObject(<<
        F("description", ZOptional(ZString)),
        F("mediaType", ZOptional(ZString)),
        F("$href", HrefSchema)>>)))
  >>))

referenceSchema ==
  ZObject(<<
    F("$ref", ZRefine(ZString, "isValidUriReference",
                      "$ref must be a valid URI reference")),
    F("mediaType", ZOptional(ZString)),
    F("description", ZOptional(ZString))
  >>)

externalResourceSchema ==
  ZObject(<<
    F("description", ZOptional(ZString)),
    F("mediaType", ZOptional(ZString)),
    F("$href", HrefSchema)
  >>)

ownerSchema ==
  Passthrough(ZObject(<<F("id", ZString), F("name", ZOptional(ZString))>>))

contactPointSchema ==
  Passthrough(ZObject(<<
    F("name", ZOptional(ZString)),
    F("description", ZOptional(ZString)),
    F("channel", ZOptional(ZString)),
    F("address", ZOptional(ZString))
  >>))

objectOrStringSchema == ZUnion(<<ZRecord(ZAny), ZString>>)

objectOrReferenceSchema == ZUnion(<<ZRecord(ZAny), referenceSchema>>)

standardDefinitionSchema ==
  Extend(entitySchema, <<
    F("specification", ZString),
    F("specificationVersion", ZOptional(ZString)),
    F("definition", objectOrStringSchema)
  >>)

promisesSchema_WithReference ==
  Passthrough(ZObject(<<
    F("platform", ZOptional(ZString)),
    F("servicesType", ZOptional(ZString)),
    F("api", ZOptional(ZUnion(<<standardDefinitionSchema, referenceSchema>>))),
    F("deprecationPolicy",
      ZOptional(ZUnion(<<standardDefinitionSchema, referenceSchema>>))),
    F("slo", ZOptional(ZUnion(<<standardDefinitionSchema, referenceSchema>>)))
  >>))

promisesSchema ==
  Passthrough(ZObject(<<
    F("platform", ZOptional(ZString)),
    F("servicesType", ZOptional(ZString)),
    F("api", ZOptional(standardDefinitionSchema)),
    F("deprecationPolicy", ZOptional(standardDefinitionSchema)),
    F("slo", ZOptional(standardDefinitionSchema))
  >>))

expectationsSchema ==
  Passthrough(ZObject(<<
    F("audience", ZOptional(standardDefinitionSchema)),
    F("usage", ZOptional(standardDefinitionSchema))
  >>))

obligationsSchema ==
  Passthrough(ZObject(<<
    F("termsAndConditions", ZOptional(standardDefinitionSchema)),
    F("billingPolicy", ZOptional(standardDefinitionSchema)),
    F("sla", ZOptional(standardDefinitionSchema))
  >>))

portSchema ==
  Extend(entitySchema, <<
    F("promises", ZOptional(ZUnion(<<promisesSchema, referenceSchema>>))),
    F("expectations", ZOptional(ZUnion(<<expectationsSchema, referenceSchema>>))),
    F("obligations", ZOptional(ZUnion(<<obligationsSchema, referenceSchema>>)))
  >>)

inputPortSchema == ZLazy(Extend(portSchema, <<>>))
outputPortSchema == ZLazy(Extend(portSchema, <<>>))
discoveryPortSchema == ZLazy(Extend(portSchema, <<>>))
observabilityPortSchema == ZLazy(Extend(portSchema, <<>>))
controlPortSchema == ZLazy(Extend(portSchema, <<>>))

applicationComponentSchema ==
  Extend(entitySchema, <<
    F("platform", ZOptional(ZString)),
    F("applicationType", ZOptional(ZString)),
    F("consumesFrom", ZOptional(ZArray(ZString))),
    F("providesTo", ZOptional(ZArray(ZString))),
    F("dependsOn", ZOptional(ZArray(ZString)))
  >>)

infrastructuralComponentSchema ==
  Extend(entitySchema, <<
    F("platform", ZOptional(ZString)),
    F("infrastructureType", ZOptional(ZString)),
    F("dependsOn", ZOptional(ZArray(ZString)))
  >>)

lifecycleTaskInfoSchema ==
  Passthrough(ZObject(<<
    F("name", ZOptional(ZString)),
    F("order", ZOptional(ZNumber)),
    F("service", ZOptional(externalResourceSchema)),
    F("template", ZOptional(ZUnion(<<standardDefinitionSchema, referenceSchema>>))),
    F("configurations", ZOptional(objectOrReferenceSchema))
  >>))

interfaceComponentsSchema_OptionalOutputPorts ==
  ZObject(<<
    F("inputPorts", ZOptional(ZArray(ZUnion(<<inputPortSchema, referenceSchema>>)))),
    F("outputPorts",
      ZOptional(ZArray(ZUnion(<<outputPortSchema, referenceSchema>>)))),
    F("discoveryPorts",
      ZOptional(ZArray(ZUnion(<<discoveryPortSchema, referenceSchema>>)))),
    F("observabilityPorts",
      ZOptional(ZArray(ZUnion(<<observabilityPortSchema, referenceSchema>>)))),
    F("controlPorts",
      ZOptional(ZArray(ZUnion(<<controlPortSchema, referenceSchema>>))))
  >>)

interfaceComponentsSchema_NoReference ==
  ZObject(<<
    F("inputPorts", ZOptional(ZArray(inputPortSchema))),
    F("outputPorts", ZArray(outputPortSchema)),
    F("discoveryPorts", ZOptional(ZArray(discoveryPortSchema))),
    F("observabilityPorts", ZOptional(ZArray(observabilityPortSchema))),
    F("controlPorts", ZOptional(ZArray(controlPortSchema)))
  >>)

interfaceComponentsSchema ==
  ZObject(<<
    F("inputPorts", ZOptional(ZArray(ZUnion(<<inputPortSchema, referenceSchema>>)))),
    F("outputPorts", ZArray(ZUnion(<<outputPortSchema, referenceSchema>>))),
    F("discoveryPorts",
      ZOptional(ZArray(ZUnion(<<discoveryPortSchema, referenceSchema>>)))),
    F("observabilityPorts",
      ZOptional(ZArray(ZUnion(<<observabilityPortSchema, referenceSchema>>)))),
    F("controlPorts",
      ZOptional(ZArray(ZUnion(<<controlPortSchema, referenceSchema>>))))
  >>)

internalComponentsSchema ==
  ZObject(<<
    F("lifecycleInfo", ZOptional(ZRecord(ZArray(lifecycleTaskInfoSchema)))),
    F("applicationComponents",
      ZOptional(ZArray(ZUnion(<<applicationComponentSchema, referenceSchema>>)))),
    F("infrastructuralComponents",
      ZOptional(ZArray(ZUnion(<<infrastructuralComponentSchema, referenceSchema>>))))
  >>)

componentsSchema ==
  Passthrough(ZObject(<<
    F("inputPorts", ZOptional(ZRecord(ZUnion(<<inputPortSchema, referenceSchema>>)))),
    F("outputPorts", ZOptional(ZRecord(ZUnion(<<outputPortSchema, referenceSchema>>)))),
    F("discoveryPorts",
      ZOptional(ZRecord(ZUnion(<<discoveryPortSchema, referenceSchema>>)))),
    F("observabilityPorts",
      ZOptional(ZRecord(ZUnion(<<observabilityPortSchema, referenceSchema>>)))),
    F("controlPorts",
      ZOptional(ZRecord(ZUnion(<<controlPortSchema, referenceSchema>>)))),
    F("applicationComponents",
      ZOptional(ZRecord(ZUnion(<<applicationComponentSchema, referenceSchema>>)))),
    F("infrastructuralComponents",
      ZOptional(ZRecord(ZUnion(<<infrastructuralComponentSchema, referenceSchema>>))))
  >>))

infoSchema ==
  Passthrough(ZObject(<<
    F("id", ZRefine(ZOptional(ZString), "isValidUuid",
                    "id must be a valid UUID format")),
    F("fullyQualifiedName", ZRefine(ZString, "isValidFqn", FqnMessage)),
    F("entityType", ZRefine(ZOptional(ZString), "isValidAlphanumeric",
                    "entityType must contain only alphanumeric characters")),
    F("name", ZRefine(ZString, "isValidCamelCase",
                    "name must be in a valid format (camelCase)")),
    F("version", ZRefine(ZString, "isValidVersion",
                    "version must follow semantic versioning format")),
    F("displayName", ZOptional(ZString)),
    F("description", ZOptional(ZString)),
    F("domain", ZString),
    F("owner", ownerSchema),
    F("contactPoints", ZOptional(ZArray(contactPointSchema)))
  >>))

dataProductDescriptorSchema_TagsUnchecked ==
  ZObject(<<
    F("dataProductDescriptor", ZRefine(ZString, "isValidVersion",
        "dataProductDescriptor must follow semantic versioning format")),
    F("info", infoSchema),
    F("interfaceComponents", interfaceComponentsSchema),
    F("internalComponents", ZOptional(internalComponentsSchema)),
    F("components", ZOptional(componentsSchema)),
    F("tags", ZOptional(ZArray(ZAny))),
    F("externalDocs", ZOptional(externalResourceSchema))
  >>)

dataProductDescriptorSchema ==
  ZObject(<<
    F("dataProductDescriptor", ZRefine(ZString, "isValidVersion",
        "dataProductDescriptor must follow semantic versioning format")),
    F("info", infoSchema),
    F("interfaceComponents", interfaceComponentsSchema),
    F("internalComponents", ZOptional(internalComponentsSchema)),
    F("components", ZOptional(componentsSchema)),
    F("tags", ZOptional(ZArray(ZString))),
    F("externalDocs", ZOptional(externalResourceSchema))
  >>)

\* ------------------------------------------------------------------------
\* zod: ZodError.format(), as called by validateWithSchema
\*
\* The formatted error is a tree of JavaScript objects {_errors: [...], ...}.
\* A tree value is an object ("obj": ordered properties), an array ("arr":
\* items plus named properties), a message string ("str"), an array hole or
\* undefined.
\* ------------------------------------------------------------------------
FVal(ft, items, props, str) == [ft |-> ft, items |-> items, props |-> props, s |-> str]
FUndef == FVal("undefined", <<>>, <<>>, "")
FHole == FVal("hole", <<>>, <<>>, "")
FStr(m) == FVal("str", <<>>, <<>>, m)
FArr(items, props) == FVal("arr", items, props, "")
FObj(props) == FVal("obj", <<>>, props, "")
\* { _errors: [] }
NewNode == FObj(<<P("_errors", FArr(<<>>, <<>>))>>)

PropOf(ps, key) ==
  IF \E i \in 1..Len(ps) : ps[i].k = key
    THEN ps[CHOOSE i \in 1..Len(ps) : ps[i].k = key].v
    ELSE FUndef

\* x[el] (own properties; the inherited members of Array.prototype are not
\* among the path segments of the modelled schemas)
FGet(x, el) ==
  CASE x.ft = "obj" -> PropOf(x.props, el)
    [] x.ft = "arr" ->
         IF IsIndexKey(el)
           THEN IF IndexVal(el) < Len(x.items) /\ x.items[IndexVal(el) + 1].ft # "hole"
                  THEN x.items[IndexVal(el) + 1]
                  ELSE FUndef
           ELSE PropOf(x.props, el)
    [] OTHER -> FUndef

\* x[el] = val on an object or an array
FSet(x, el, val) ==
  IF x.ft = "arr" /\ IsIndexKey(el)
    THEN LET n == IF IndexVal(el) + 1 > Len(x.items)
                    THEN IndexVal(el) + 1 ELSE Len(x.items)
         IN  [x EXCEPT !.items =
               [i \in 1..n |-> IF i = IndexVal(el) + 1 THEN val
                               ELSE IF i <= Len(x.items) THEN x.items[i]
                               ELSE FHole]]
    ELSE [x EXCEPT !.props = SetPair(x.props, el, val)]

Threw == [threw |-> TRUE, node |-> FUndef]
Done(n) == [threw |-> FALSE, node |-> n]

\* the while loop of format(): walks the issue's path from curr,
\*   curr[el] = curr[el] || { _errors: [] }
\* and at the last segment curr[el]._errors.push(message).  A TypeError is
\* thrown when a property is set on a string or push is called on undefined.
RECURSIVE Walk(_, _, _)
Walk(curr, path, msg) ==
  LET el       == Head(path)
      existing == FGet(curr, el)
      child    == IF existing.ft = "undefined" THEN NewNode ELSE existing
      errs     == FGet(child, "_errors")
  IN  IF curr.ft = "str" THEN Threw
      ELSE IF Len(path) = 1
        THEN IF errs.ft # "arr" THEN Threw
             ELSE Done(FSet(curr, el,
                    FSet(child, "_errors",
                         [errs EXCEPT !.items = Append(errs.items, FStr(msg))])))
        ELSE LET r == Walk(child, Tail(path), msg)
             IN  IF r.threw THEN Threw ELSE Done(FSet(curr, el, r.node))

\* processError: union errors are descended into, an issue at the root is
\* pushed to fieldErrors._errors, any other issue is placed by its path
RECURSIVE ProcessError(_, _)
ProcessError(acc, issues) ==
  IF issues = <<>> \/ acc.threw THEN acc
  ELSE LET issue == Head(issues)
           step  == IF issue.code = "invalid_union"
                      THEN ProcessError(acc, Flatten(issue.unionErrors))
                    ELSE IF issue.path = <<>>
                      THEN LET errs == FGet(acc.node, "_errors")
                           IN  Done(FSet(acc.node, "_errors",
                                 [errs EXCEPT !.items =
                                    Append(errs.items, FStr(issue.message))]))
                    ELSE Walk(acc.node, issue.path, issue.message)
       IN  ProcessError(step, Tail(issues))

format(issues) == ProcessError(Done(NewNode), issues)

\* ------------------------------------------------------------------------
\* lib/verify.ts
\* ------------------------------------------------------------------------
\* the text of `${err}` for an element of an _errors array
ErrText(e) ==
  CASE e.ft = "str" -> e.s
    [] e.ft = "hole" -> "<empty item>"
    [] OTHER -> "[object Object]"

\* nested errors listed under their own key instead of the dotted path
RECURSIVE formatZodErrors_KeyOnly(_, _)
formatZodErrors_KeyOnly(errors, path) ==
  LET errs == FGet(errors, "_errors")
      own  == IF errs.ft = "arr" /\ Len(errs.items) > 0
                THEN [i \in 1..Len(errs.items) |->
                        IF path # "" THEN path \o ": " \o ErrText(errs.items[i])
                        ELSE ErrText(errs.items[i])]
                ELSE <<>>
      ps   == errors.props
      nested == [i \in 1..Len(ps) |->
                   IF ps[i].k # "_errors" /\ ps[i].v.ft \in {"obj", "arr"}
                     THEN formatZodErrors_KeyOnly(ps[i].v, ps[i].k)
                     ELSE <<>>]
  IN  own \o Flatten(nested)

\* the children visited in the reverse of the for...in order
RECURSIVE formatZodErrors_ReverseChildren(_, _)
formatZodErrors_ReverseChildren(errors, path) ==
  LET errs == FGet(errors, "_errors")
      own  == IF errs.ft = "arr" /\ Len(errs.items) > 0
                THEN [i \in 1..Len(errs.items) |->
                        IF path # "" THEN path \o ": " \o ErrText(errs.items[i])
                        ELSE ErrText(errs.items[i])]
                ELSE <<>>
      ps   == errors.props
      nested == [i \in 1..Len(ps) |->
                   LET p == ps[Len(ps) + 1 - i]
                   IN  IF p.k # "_errors" /\ p.v.ft \in {"obj", "arr"}
                         THEN formatZodErrors_ReverseChildren(p.v,
                                IF path # "" THEN path \o "." \o p.k ELSE p.k)
                         ELSE <<>>]
  IN  own \o Flatten(nested)

RECURSIVE formatZodErrors(_, _)
formatZodErrors(errors, path) ==
  LET errs == FGet(errors, "_errors")
      own  == IF errs.ft = "arr" /\ Len(errs.items) > 0
                THEN [i \in 1..Len(errs.items) |->
                        IF path # "" THEN path \o ": " \o ErrText(errs.items[i])
                        ELSE ErrText(errs.items[i])]
                ELSE <<>>
      ps   == errors.props
      nested == [i \in 1..Len(ps) |->
                   IF ps[i].k # "_errors" /\ ps[i].v.ft \in {"obj", "arr"}
                     THEN formatZodErrors(ps[i].v,
                            IF path # "" THEN path \o "." \o ps[i].k ELSE ps[i].k)
                     ELSE <<>>]
  IN  own \o Flatten(nested)

\* the value of a call: returned, or a thrown exception
Returned(val) == [threw |-> FALSE, val |-> val]
Thrown ==
  [threw |-> TRUE,
   val |-> [success |-> FALSE, data |-> undefined, errors |-> <<>>]]

validateWithSchema(schema, value) ==
  LET safeParse == ZParse(schema, value, <<>>)
  IN  IF safeParse.status = "valid"
        THEN Returned([success |-> TRUE, data |-> safeParse.value, errors |-> <<>>])
        ELSE LET formatted == format(safeParse.issues)
             IN  IF formatted.threw THEN Thrown
                 ELSE Returned([success |-> FALSE, data |-> undefined,
                                errors |-> formatZodErrors(formatted.node, "")])

validateDataProductDescriptor(value) ==
  validateWithSchema(dataProductDescriptorSchema, value)

\* JavaScript truthiness of a value
Truthy(val) ==
  /\ val.t \notin {"undefined", "null"}
  /\ ~(val.t = "string" /\ val.v = <<>>)
  /\ ~(val.t = "number" /\ val.v = <<"0">>)

\* the text of a string value inside a template literal
RECURSIVE Text(_)
Text(cs) == IF cs = <<>> THEN "" ELSE Head(cs) \o Text(Tail(cs))

PortWarnings_PromisesFirst(port, index) ==
  LET label == IF Truthy(Get(port, "name")) THEN Text(Get(port, "name").v)
               ELSE "#" \o ToString(index)
  IN  IF HasKey(port, "$ref") THEN <<>>
      ELSE (IF ~Truthy(Get(port, "promises"))
              THEN <<"Missing promises in output port " \o label>>
              ELSE <<>>)
           \o (IF ~Truthy(Get(port, "description"))
                 THEN <<"Missing description for output port " \o label>>
                 ELSE <<>>)

\* the warnings pushed for the output port at 0-based position index
PortWarnings(port, index) ==
  LET label == IF Truthy(Get(port, "name")) THEN Text(Get(port, "name").v)
               ELSE "#" \o ToString(index)
  IN  IF HasKey(port, "$ref") THEN <<>>
      ELSE (IF ~Truthy(Get(port, "description"))
              THEN <<"Missing description for output port " \o label>>
              ELSE <<>>)
           \o (IF ~Truthy(Get(port, "promises"))
                 THEN <<"Missing promises in output port " \o label>>
                 ELSE <<>>)

checkBestPractices(descriptor) ==
  LET info  == Get(descriptor, "info")
      ports == Get(Get(descriptor, "interfaceComponents"), "outputPorts").v
      cps   == Get(info, "contactPoints")
  IN  (IF ~Truthy(Get(info, "description"))
         THEN <<"Missing data product description in info">> ELSE <<>>)
      \o Flatten([i \in 1..Len(ports) |-> PortWarnings(ports[i], i - 1)])
      \o (IF ~Truthy(cps) \/ Len(cps.v) = 0
            THEN <<"No contact points defined for the data product">> ELSE <<>>)

\* errors: string[] | null
NullErrors == [null |-> TRUE, list |-> <<>>]
ErrorList(es) == [null |-> FALSE, list |-> es]
VerificationResult(isValid, errors, warnings) ==
  [isValid |-> isValid, errors |-> errors, warnings |-> warnings]

\* ------------------------------------------------------------------------
\* JSON text and JSON.parse
\*
\* A file's text is a sequence of lexical tokens; a string literal in key
\* position is a "key" token holding the key.
\* ------------------------------------------------------------------------
Tok(tk, v) == [tk |-> tk, v |-> v]

RECURSIVE Stringify(_)
Stringify(val) ==
  CASE val.t = "array" ->
         <<Tok("[", <<>>)>>
         \o Flatten([i \in 1..Len(val.v) |->
              (IF i > 1 THEN <<Tok(",", <<>>)>> ELSE <<>>) \o Stringify(val.v[i])])
         \o <<Tok("]", <<>>)>>
    [] val.t = "object" ->
         <<Tok("{", <<>>)>>
         \o Flatten([i \in 1..Len(val.v) |->
              (IF i > 1 THEN <<Tok(",", <<>>)>> ELSE <<>>)
              \o <<Tok("key", <<val.v[i].k>>), Tok(":", <<>>)>>
              \o Stringify(val.v[i].v)])
         \o <<Tok("}", <<>>)>>
    [] OTHER -> <<Tok(val.t, val.v)>>

ParseFail == [ok |-> FALSE, val |-> undefined, rest |-> <<>>]
ParseOk(val, rest) == [ok |-> TRUE, val |-> val, rest |-> rest]
IsTok(ts, tk) == ts # <<>> /\ Head(ts).tk = tk

RECURSIVE ParseValue(_), ParseElements(_, _), ParseMembers(_, _)
ParseValue(ts) ==
  IF ts = <<>> THEN ParseFail
  ELSE CASE Head(ts).tk \in {"string", "number", "null"} ->
              ParseOk([t |-> Head(ts).tk, v |-> Head(ts).v], Tail(ts))
         [] Head(ts).tk = "[" ->
              IF IsTok(Tail(ts), "]") THEN ParseOk(JArr(<<>>), Tail(Tail(ts)))
              ELSE ParseElements(<<>>, Tail(ts))
         [] Head(ts).tk = "{" ->
              IF IsTok(Tail(ts), "}") THEN ParseOk(JObj(<<>>), Tail(Tail(ts)))
              ELSE ParseMembers(<<>>, Tail(ts))
         [] OTHER -> ParseFail

\* value ("," value)* "]"
ParseElements(acc, ts) ==
  LET r == ParseValue(ts)
  IN  IF ~r.ok THEN ParseFail
      ELSE IF IsTok(r.rest, ",") THEN ParseElements(Append(acc, r.val), Tail(r.rest))
      ELSE IF IsTok(r.rest, "]") THEN ParseOk(JArr(Append(acc, r.val)), Tail(r.rest))
      ELSE ParseFail

\* key ":" value ("," key ":" value)* "}"; a repeated key keeps its first
\* position and takes the last value
ParseMembers(acc, ts) ==
  IF ~(IsTok(ts, "key") /\ IsTok(Tail(ts), ":")) THEN ParseFail
  ELSE LET r   == ParseValue(Tail(Tail(ts)))
           obj == SetPair(acc, Head(ts).v[1], r.val)
       IN  IF ~r.ok THEN ParseFail
           ELSE IF IsTok(r.rest, ",") THEN ParseMembers(obj, Tail(r.rest))
           ELSE IF IsTok(r.rest, "}") THEN ParseOk(JObj(obj), Tail(r.rest))
           ELSE ParseFail

\* JSON.parse(text): [ok, val]; ok = FALSE models the SyntaxError
JSONParse(text) ==
  LET r == ParseValue(text)
  IN  IF r.ok /\ r.rest = <<>> THEN [ok |-> TRUE, val |-> r.val]
      ELSE [ok |-> FALSE, val |-> undefined]

\* ------------------------------------------------------------------------
\* Input documents
\* ------------------------------------------------------------------------
S_semver == JStr(<<"1", ".", "0", ".", "0">>)
S_v1 == JStr(<<"v", "1">>)
S_sample == JStr(<<"s", "a", "m", "p", "l", "e">>)
S_Sample == JStr(<<"S", "a", "m", "p", "l", "e">>)
S_fqn == JStr(<<"u", "r", "n", ":", "d", "p", "d", "s", ":", "o", ".", "e", ":",
                "d", "a", "t", "a", "p", "r", "o", "d", "u", "c", "t", "s", ":",
                "s", ":", "1">>)
S_domain == JStr(<<"o", ".", "e">>)
S_text == JStr(<<"t">>)
S_ref == JStr(<<"#", "/", "a">>)
S_bad == JStr(<<"-">>)

\* obj without key / obj with obj[key] = val
Without(obj, key) ==
  JObj(SelectPairs(obj.v, [i \in 1..Len(obj.v) |-> obj.v[i].k # key]))
With(obj, key, val) == JObj(SetPair(obj.v, key, val))

MinimalInfo ==
  JObj(<<P("fullyQualifiedName", S_fqn), P("name", S_sample),
         P("version", S_semver), P("domain", S_domain),
         P("owner", JObj(<<P("id", S_text)>>))>>)

\* the minimal valid descriptor
MinimalDescriptor ==
  JObj(<<P("dataProductDescriptor", S_semver),
         P("info", MinimalInfo),
         P("interfaceComponents", JObj(<<P("outputPorts", JArr(<<>>))>>))>>)

Reference == JObj(<<P("$ref", S_ref)>>)
MinimalEntity == JObj(<<P("name", S_sample), P("version", S_semver)>>)
StandardDefinition ==
  JObj(<<P("name", S_sample), P("version", S_semver),
         P("specification", S_text), P("definition", S_text)>>)

\* the known definition fields of the Promises, Expectations and
\* Obligations bags
BagFields ==
  [promises |-> {"api", "deprecationPolicy", "slo"},
   expectations |-> {"audience", "usage"},
   obligations |-> {"termsAndConditions", "billingPolicy", "sla"}]
BagNames == {"promises", "expectations", "obligations"}

InfoVals ==
  {MinimalInfo,
   With(MinimalInfo, "version", S_v1),
   With(MinimalInfo, "name", S_Sample),
   With(MinimalInfo, "description", S_text),
   With(MinimalInfo, "contactPoints", JArr(<<>>)),
   With(With(MinimalInfo, "description", S_text), "contactPoints",
        JArr(<<JObj(<<P("name", S_text)>>)>>)),
   With(MinimalInfo, "id", S_bad),
   With(MinimalInfo, "x-extra", JNull)}

\* a port whose bag b carries the known definition field f with value d
BagPort(b, f, d) == With(MinimalEntity, b, JObj(<<P(f, d)>>))

BagPorts ==
  {BagPort("promises", f, d) :
     f \in BagFields["promises"], d \in {StandardDefinition, Reference}}
  \cup {BagPort("expectations", f, d) :
     f \in BagFields["expectations"], d \in {StandardDefinition, Reference}}
  \cup {BagPort("obligations", f, d) :
     f \in BagFields["obligations"], d \in {StandardDefinition, Reference}}

PortVals ==
  {MinimalEntity,
   With(With(MinimalEntity, "description", S_text), "promises", JObj(<<>>)),
   Reference,
   JObj(<<P("$ref", S_bad)>>),
   JObj(<<>>),
   With(MinimalEntity, "name", S_Sample),
   With(MinimalEntity, "id", S_bad),
   With(MinimalEntity, "fullyQualifiedName", S_bad),
   With(MinimalEntity, "entityType", S_bad),
   With(MinimalEntity, "promises", Reference),
   With(MinimalEntity, "externalDocs", JObj(<<P("$href", S_bad)>>))}

\* sequences of at most n members of S
SeqsUpTo(S, n) == UNION {[1..m -> S] : m \in 0..n}

InterfaceVals ==
  {undefined, JObj(<<>>)}
  \cup {JObj(<<P("outputPorts", JArr(ps))>>) : ps \in SeqsUpTo(PortVals, MaxPorts)}
  \cup {JObj(<<P("outputPorts", JArr(<<p>>))>>) : p \in BagPorts}

\* keys of the components mappings
MapKeys == {"a", "_errors"}

ComponentsVals ==
  {undefined}
  \cup {JObj(<<P("outputPorts", JObj(<<P(key, val)>>))>>) :
          key \in MapKeys, val \in {MinimalEntity, Reference, JObj(<<>>), S_text}}

InternalVals ==
  {undefined}
  \cup {JObj(<<P("lifecycleInfo", JObj(<<P("a", JArr(<<JObj(<<P("template", d)>>)>>))>>))>>) :
          d \in {StandardDefinition, Reference, JObj(<<>>)}}

\* the descriptor with the given members (a member that is undefined is
\* left out)
Descriptor(dpd, info, ic, inc, cs) ==
  LET all == <<P("dataProductDescriptor", dpd), P("info", info),
               P("interfaceComponents", ic), P("internalComponents", inc),
               P("components", cs)>>
  IN  JObj(SelectPairs(all, [i \in 1..Len(all) |-> all[i].v.t # "undefined"]))

DefaultInterface == JObj(<<P("outputPorts", JArr(<<>>))>>)

\* the places of a descriptor typed T | Reference
UnionSites ==
  {"outputPort", "inputPort", "promises", "expectations", "obligations",
   "component", "applicationComponent", "template"}

\* the schema T of a place
SiteSchema(site) ==
  CASE site = "outputPort" -> outputPortSchema
    [] site = "inputPort" -> inputPortSchema
    [] site = "promises" -> promisesSchema
    [] site = "expectations" -> expectationsSchema
    [] site = "obligations" -> obligationsSchema
    [] site = "component" -> outputPortSchema
    [] site = "applicationComponent" -> applicationComponentSchema
    [] site = "template" -> standardDefinitionSchema

UnionVals ==
  {MinimalEntity, StandardDefinition, Reference, JObj(<<>>),
   JObj(<<P("$ref", S_bad)>>),
   JObj(<<P("$ref", S_ref), P("api", S_text)>>)}

OutputPorts(ps) == JObj(<<P("outputPorts", JArr(ps))>>)

\* the minimal descriptor with the value val at the place site
SiteDoc(site, val) ==
  CASE site = "outputPort" ->
         Descriptor(S_semver, MinimalInfo, OutputPorts(<<val>>), undefined, undefined)
    [] site = "inputPort" ->
         Descriptor(S_semver, MinimalInfo,
           With(DefaultInterface, "inputPorts", JArr(<<val>>)), undefined, undefined)
    [] site \in BagNames ->
         Descriptor(S_semver, MinimalInfo,
           OutputPorts(<<With(MinimalEntity, site, val)>>), undefined, undefined)
    [] site = "component" ->
         Descriptor(S_semver, MinimalInfo, DefaultInterface, undefined,
           JObj(<<P("outputPorts", JObj(<<P("a", val)>>))>>))
    [] site = "applicationComponent" ->
         Descriptor(S_semver, MinimalInfo, DefaultInterface,
           JObj(<<P("applicationComponents", JArr(<<val>>))>>), undefined)
    [] site = "template" ->
         Descriptor(S_semver, MinimalInfo, DefaultInterface,
           JObj(<<P("lifecycleInfo",
                    JObj(<<P("a", JArr(<<JObj(<<P("template", val)>>)>>))>>))>>),
           undefined)

\* documents whose keys are written in another order than the schemas
\* declare them, with violations under several keys
ReorderedInfo ==
  JObj(<<P("owner", JObj(<<>>)), P("domain", S_domain), P("version", S_v1),
         P("name", S_Sample), P("fullyQualifiedName", S_fqn)>>)
ReorderedDocs ==
  {JObj(<<P("interfaceComponents", JObj(<<>>)), P("info", ReorderedInfo),
          P("dataProductDescriptor", S_v1)>>),
   JObj(<<P("interfaceComponents",
            OutputPorts(<<JObj(<<P("version", S_v1), P("name", S_Sample)>>),
                          JObj(<<>>)>>)),
          P("info", MinimalInfo),
          P("dataProductDescriptor", S_semver)>>)}

\* documents with an invalid element after a valid one in a sequence
SequenceDocs ==
  {Descriptor(S_semver, MinimalInfo, OutputPorts(<<MinimalEntity, JObj(<<>>)>>),
              undefined, undefined),
   With(MinimalDescriptor, "tags", JArr(<<S_text, JNum(1), JNull>>)),
   With(MinimalDescriptor, "info",
        With(MinimalInfo, "contactPoints",
             JArr(<<JObj(<<>>), JObj(<<P("name", JNum(1))>>)>>)))}

\* valid documents with keys no schema declares: at the root, in info
\* and in interfaceComponents
ExtraInfo == With(MinimalInfo, "x-extra", JNull)
ExtraKeyDocs ==
  {With(With(MinimalDescriptor, "info", ExtraInfo), "x-extra", S_text),
   With(MinimalDescriptor, "interfaceComponents",
        With(DefaultInterface, "x-extra", JObj(<<>>)))}

\* valid documents with an empty description, in info and in a port
EmptyTextDocs ==
  {With(MinimalDescriptor, "info", With(MinimalInfo, "description", JStr(<<>>))),
   With(MinimalDescriptor, "interfaceComponents",
        OutputPorts(<<With(With(MinimalEntity, "description", JStr(<<>>)),
                           "promises", JObj(<<>>))>>))}

\* descriptors of type DataProductDescriptor given to checkBestPractices:
\* name is a string (possibly empty), description and promises are optional
MaxLintPorts == 2
LintPorts ==
  {MinimalEntity,
   With(MinimalEntity, "description", S_text),
   With(With(MinimalEntity, "description", S_text), "promises", JObj(<<>>)),
   With(With(MinimalEntity, "description", JStr(<<>>)), "promises", JObj(<<>>)),
   With(MinimalEntity, "name", JStr(<<>>)),
   Reference}
LintInfos ==
  {IF cps = undefined THEN i ELSE With(i, "contactPoints", cps) :
     i \in {MinimalInfo, With(MinimalInfo, "description", JStr(<<>>)),
            With(MinimalInfo, "description", S_text)},
     cps \in {undefined, JArr(<<>>), JArr(<<JObj(<<P("name", S_text)>>)>>)}}
LintDocs ==
  {Descriptor(S_semver, info, OutputPorts(ps), undefined, undefined) :
     info \in LintInfos, ps \in SeqsUpTo(LintPorts, MaxLintPorts)}

\* descriptors that differ from the minimal one in the interface components
\* and in at most one other member, and JSON values that are not objects
Docs ==
  {Descriptor(dpd, MinimalInfo, ic, undefined, undefined) :
     dpd \in {undefined, S_semver, S_v1}, ic \in InterfaceVals}
  \cup {Descriptor(S_semver, info, ic, undefined, undefined) :
     info \in InfoVals \cup {undefined}, ic \in InterfaceVals}
  \cup {Descriptor(S_semver, MinimalInfo, DefaultInterface, inc, cs) :
     inc \in InternalVals, cs \in ComponentsVals}
  \cup {SiteDoc(site, val) : site \in UnionSites, val \in UnionVals}
  \cup {JNull, JNum(1), JArr(<<>>), S_text}
  \cup ReorderedDocs
  \cup SequenceDocs
  \cup ExtraKeyDocs
  \cup EmptyTextDocs

\* file texts that are not JSON
Malformed ==
  {<<>>,
   <<Tok("{", <<>>)>>,
   <<Tok("{", <<>>), Tok("key", <<"info">>), Tok("}", <<>>)>>,
   <<Tok("[", <<>>), Tok("null", <<>>), Tok(",", <<>>), Tok("]", <<>>)>>,
   Stringify(MinimalDescriptor) \o <<Tok("}", <<>>)>>,
   SubSeq(Stringify(MinimalDescriptor), 1, Len(Stringify(MinimalDescriptor)) - 1)}

\* what filePath names: nothing, a directory (existsSync is true and
\* readFileSync throws), or a file with a text
Files ==
  {[kind |-> "missing", text |-> <<>>], [kind |-> "directory", text |-> <<>>]}
  \cup {[kind |-> "file", text |-> Stringify(d)] : d \in Docs}
  \cup {[kind |-> "file", text |-> m] : m \in Malformed}

filePath == "descriptor.json"

\* ------------------------------------------------------------------------
\* schemaUtils.ts
\*
\* processSchema works on objects by reference.  The heap is a sequence of
\* cells (objects and arrays); a member of a cell is a primitive value or a
\* reference to a cell.
\* ------------------------------------------------------------------------
MaxApply == 2

Ref(a) == [t |-> "ref", v |-> <<ToString(a)>>]
IsRef(x) == x.t = "ref"
Addr(heap, x) == CHOOSE a \in 1..Len(heap) : ToString(a) = x.v[1]
Cell(heap, x) == heap[Addr(heap, x)]
Out(heap, x) == [heap |-> heap, ref |-> x]

\* the tree val stored in fresh cells after those of heap: the cells of a
\* member come before the cell that refers to it
RECURSIVE Total(_)
Total(ns) == IF ns = <<>> THEN 0 ELSE Head(ns) + Total(Tail(ns))
Members(val) ==
  IF val.t = "array" THEN val.v ELSE [i \in 1..Len(val.v) |-> val.v[i].v]
RECURSIVE Size(_)
Size(val) ==
  IF val.t \notin {"object", "array"} THEN 0
  ELSE 1 + Total([i \in 1..Len(val.v) |-> Size(Members(val)[i])])
RECURSIVE LoadAll(_, _)
LoadAll(val, base) ==
  LET kids  == Members(val)
      at    == [i \in 1..Len(kids) |->
                  base + Total([j \in 1..(i - 1) |-> Size(kids[j])])]
      refs  == [i \in 1..Len(kids) |->
                  IF Size(kids[i]) = 0 THEN kids[i]
                  ELSE Ref(at[i] + Size(kids[i]))]
      cell  == IF val.t = "array" THEN JArr(refs)
               ELSE JObj([i \in 1..Len(kids) |-> P(val.v[i].k, refs[i])])
  IN  Flatten([i \in 1..Len(kids) |->
                 IF Size(kids[i]) = 0 THEN <<>> ELSE LoadAll(kids[i], at[i])])
      \o <<cell>>
Load(heap, val) ==
  IF Size(val) = 0 THEN Out(heap, val)
  ELSE Out(heap \o LoadAll(val, Len(heap)), Ref(Len(heap) + Size(val)))

\* the tree a value denotes
RECURSIVE Tree(_, _)
Tree(heap, x) ==
  IF ~IsRef(x) THEN x
  ELSE LET c == Cell(heap, x)
       IN  IF c.t = "array" THEN JArr([i \in 1..Len(c.v) |-> Tree(heap, c.v[i])])
           ELSE JObj([i \in 1..Len(c.v) |-> P(c.v[i].k, Tree(heap, c.v[i].v))])

\* key in obj and obj[key]: own keys first, then the prototype chain. Only
\* an object processSchema assigned "__proto__" on has a prototype with keys
RECURSIVE In(_, _, _)
In(heap, obj, key) ==
  \/ obj.t = "object" /\ HasKey(obj, key)
  \/ "proto" \in DOMAIN obj /\ In(heap, Cell(heap, obj.proto), key)
RECURSIVE Lookup(_, _, _)
Lookup(heap, obj, key) ==
  IF obj.t = "object" /\ HasKey(obj, key) THEN Get(obj, key)
  ELSE IF "proto" \in DOMAIN obj THEN Lookup(heap, Cell(heap, obj.proto), key)
  ELSE undefined

\* typeof x === 'object' && x !== null && '$ref' in x
HasRef(heap, x) ==
  IsRef(x) /\ In(heap, Cell(heap, x), "$ref")

Sentinel == JStr(<<"#", "/", "$", "d", "e", "f", "s", "/", "r", "e", "f", "e", "r", "e", "n", "c", "e">>)

\* 'oneOf' in schemaObj && Array.isArray(schemaObj.oneOf) &&
\* schemaObj.oneOf.length === 2 && hasRef0 && hasRef1
BothRefs_AnyLength(heap, schemaObj) ==
  LET oneOf == Lookup(heap, schemaObj, "oneOf")
  IN  /\ In(heap, schemaObj, "oneOf")
      /\ IsRef(oneOf)
      /\ Cell(heap, oneOf).t = "array"
      /\ Len(Cell(heap, oneOf).v) >= 2
      /\ HasRef(heap, Cell(heap, oneOf).v[1])
      /\ HasRef(heap, Cell(heap, oneOf).v[2])
BothRefs(heap, schemaObj) ==
  LET oneOf == Lookup(heap, schemaObj, "oneOf")
  IN  /\ In(heap, schemaObj, "oneOf")
      /\ IsRef(oneOf)
      /\ Cell(heap, oneOf).t = "array"
      /\ Len(Cell(heap, oneOf).v) = 2
      /\ HasRef(heap, Cell(heap, oneOf).v[1])
      /\ HasRef(heap, Cell(heap, oneOf).v[2])

\* const refItem = oneOfArray[0].$ref === '#/$defs/reference'
\*   ? oneOfArray[1] : oneOfArray[0]
RefItem_First(heap, oneOfArray) == oneOfArray[1]
RefItem(heap, oneOfArray) ==
  IF Lookup(heap, Cell(heap, oneOfArray[1]), "$ref") = Sentinel
    THEN oneOfArray[2] ELSE oneOfArray[1]

\* the number of objects and arrays a call on schema makes
RECURSIVE Made(_, _)
Made(heap, schema) ==
  IF ~IsRef(schema) THEN 0
  ELSE IF Cell(heap, schema).t = "object" /\ BothRefs(heap, Cell(heap, schema))
    THEN 1
  ELSE 1 + Total([i \in 1..Len(Cell(heap, schema).v) |->
                    Made(heap, Members(Cell(heap, schema))[i])])

\* const result = {}: the address of the object the loop assigns to, when
\* the objects made so far end at address last
Result_Alias(last, schemaObj) ==
  CHOOSE a \in 1..last : ToString(a) = schemaObj.v[1]
Result(last, schemaObj) == last + 1

\* the object {} becomes by result[key] = value for each of the entries:
\* an assignment to "__proto__" runs the setter of Object.prototype, which
\* makes an object value the prototype of result and ignores a primitive
\* other than null; null leaves result without a prototype. No own key
\* "__proto__" is made
Assigned(entries) ==
  LET own == SelectSeq(entries, LAMBDA e : e.k # "__proto__")
  IN  IF \E i \in 1..Len(entries) : entries[i].k = "__proto__" /\ IsRef(entries[i].v)
        THEN [t |-> "object", v |-> own, proto |-> Get(JObj(entries), "__proto__")]
        ELSE JObj(own)

\* the object or array cell is put at address a
Put(a, cell) == [a |-> a, cell |-> cell]
Store(heap, puts, made) ==
  [a \in 1..(Len(heap) + made) |->
     IF \E i \in 1..Len(puts) : puts[i].a = a
       THEN puts[CHOOSE i \in 1..Len(puts) :
                   /\ puts[i].a = a
                   /\ \A j \in (i + 1)..Len(puts) : puts[j].a # a].cell
     ELSE IF a <= Len(heap) THEN heap[a]
     ELSE JObj(<<>>)]

\* the value a call on schema returns and the objects and arrays it makes or
\* assigns to, the first of them after address last
RECURSIVE Calls(_, _, _)
Calls(heap, schema, last) ==
  IF ~IsRef(schema) THEN [ref |-> schema, puts |-> <<>>]
  ELSE
    LET schemaObj == Cell(heap, schema)
        values    == Members(schemaObj)
        \* the calls on the members, in order (schema.map, Object.entries)
        before(i) == last + 1 + Total([j \in 1..(i - 1) |-> Made(heap, values[j])])
        inner     == [i \in 1..Len(values) |-> Calls(heap, values[i], before(i))]
        innerPuts == Flatten([i \in 1..Len(values) |-> inner[i].puts])
    IN  IF schemaObj.t = "array"
          THEN [ref  |-> Ref(last + 1),
                puts |-> <<Put(last + 1, JArr([i \in 1..Len(values) |-> inner[i].ref]))>>
                         \o innerPuts]
        ELSE IF BothRefs(heap, schemaObj)
          THEN LET oneOfArray == Cell(heap, Lookup(heap, schemaObj, "oneOf")).v
                   refItem == RefItem(heap, oneOfArray)
               IN  [ref  |-> Ref(last + 1),
                    puts |-> <<Put(last + 1,
                                   JObj(<<P("$ref", Lookup(heap, Cell(heap, refItem), "$ref"))>>))>>]
        ELSE LET result == Result(last, schema)
             IN  [ref  |-> Ref(result),
                  puts |-> <<Put(result,
                                 Assigned([i \in 1..Len(values) |->
                                             P(schemaObj.v[i].k, inner[i].ref)]))>>
                           \o innerPuts]

processSchema(heap, schema) ==
  LET r == Calls(heap, schema, Len(heap))
  IN  Out(Store(heap, r.puts, Made(heap, schema)), r.ref)

\* trees given to processSchema
OneOf(a, b) == JObj(<<P("oneOf", JArr(<<a, b>>))>>)
RefTo(x) == JObj(<<P("$ref", x)>>)
\* the testSchema of testSchemaProcessor
TestSchema ==
  JObj(<<P("type", S_text),
         P("properties", JObj(<<
           P("inputPortOrReference", OneOf(RefTo(Sentinel), RefTo(S_ref))),
           P("nested", JObj(<<P("type", S_text),
              P("properties", JObj(<<
                P("anotherOneOf",
                  OneOf(RefTo(S_bad), JObj(<<P("type", S_text)>>)))>>))>>)),
           P("array", JObj(<<P("type", S_text),
              P("items", OneOf(RefTo(S_domain), JObj(<<P("type", S_text)>>)))>>))
         >>))>>)
OneOfMembers ==
  {RefTo(Sentinel), RefTo(S_ref), RefTo(S_bad), JObj(<<P("type", S_text)>>),
   JObj(<<P("$ref", S_ref), P("title", S_text)>>), JNull, S_text,
   RefTo(OneOf(RefTo(S_ref), RefTo(S_bad))), RefTo(JNull),
   OneOf(RefTo(S_ref), RefTo(S_bad))}
OneOfTrees == {OneOf(a, b) : a, b \in OneOfMembers}
SchemaTrees ==
  {JNull, S_text, JNum(1), JNum(0), JArr(<<>>), JObj(<<>>), TestSchema}
  \cup OneOfTrees
  \cup {JObj(<<P("title", S_text), P("oneOf", JArr(<<RefTo(Sentinel), RefTo(S_ref)>>)),
              P("x", JNum(1))>>),
        JObj(<<P("oneOf", JArr(<<RefTo(S_ref)>>))>>),
        JObj(<<P("oneOf", JArr(<<RefTo(S_ref), RefTo(S_bad), RefTo(S_text)>>))>>),
        JObj(<<P("oneOf", RefTo(S_ref))>>),
        JObj(<<P("oneOf", S_text)>>),
        JArr(<<OneOf(RefTo(S_ref), RefTo(Sentinel)), S_text, JNull,
               JArr(<<OneOf(RefTo(Sentinel), RefTo(Sentinel))>>)>>),
        JObj(<<P("b", JObj(<<P("a", JNull)>>)), P("a", JArr(<<JNum(1)>>))>>),
        JObj(<<P("title", S_text), P("__proto__", RefTo(S_ref))>>),
        JObj(<<P("__proto__", JNum(1))>>),
        JObj(<<P("__proto__", JNull), P("title", S_text)>>),
        OneOf(JObj(<<P("__proto__", RefTo(S_ref))>>), RefTo(S_bad)),
        JObj(<<P("__proto__", OneOf(RefTo(Sentinel), RefTo(S_ref)))>>),
        JObj(<<P("oneOf", JArr(<<RefTo(S_ref)>>)), P("__proto__", JNum(1))>>),
        JObj(<<P("__proto__",
                 OneOf(JObj(<<P("__proto__", RefTo(S_ref))>>), RefTo(S_bad)))>>)}

\* ------------------------------------------------------------------------
\* The verification pipeline as a state machine
\* ------------------------------------------------------------------------
VARIABLES
  entry,        \* the exported function that was called
  fs,           \* what filePath names
  strict,       \* options.strict
  pc,           \* position in verifyFile / verifyDataProduct
  fileContent,  \* verifyFile: the text read
  data,         \* verifyFile: the parsed value; verifyDataProduct: its argument
  result,       \* verifyDataProduct: value of validateDataProductDescriptor
  verification, \* the VerificationResult built by verifyDataProduct
  ret,          \* the value returned to the caller
  escaped,      \* an exception left the called function
  stages,       \* the stages run so far, in order
  cells,        \* the objects and arrays processSchema works on
  input,        \* processSchema: the argument of the first call
  processed,    \* processSchema: the values returned, call after call
  warnings,     \* checkBestPractices called directly: the list returned
  args,         \* cli: process.argv.slice(2)
  exitCode,     \* cli: the exit code of the process, -1 while it runs
  printed,      \* cli: what was printed, in order
  formData,     \* the form: formData of the store
  frames,       \* the form: callbacks given to requestAnimationFrame
  microtasks,   \* the form: callbacks given to Promise.resolve().then
  sinceReset,   \* the form: what happened since handleReset last ran
  load,         \* the form: the file DataLoader is loading or has loaded
  events        \* the form: the number of user events so far

vars == <<entry, fs, strict, pc, fileContent, data, result, verification, ret,
          escaped, stages, cells, input, processed, warnings,
          args, exitCode, printed,
          formData, frames, microtasks, sinceReset, load, events>>
pipeVars == <<fs, strict, fileContent, data, result, verification, ret,
              escaped, stages>>
normVars == <<cells, input, processed, warnings>>
cliVars == <<args, exitCode, printed>>
uiVars == <<formData, frames, microtasks, sinceReset, load, events>>
outerVars == <<cliVars, uiVars>>

NoResult == [success |-> FALSE, data |-> undefined, errors |-> <<>>]
NoVerification == VerificationResult(FALSE, NullErrors, <<>>)
NoReturn == [returned |-> FALSE, result |-> NoVerification, data |-> undefined]
Return(res, d) == [returned |-> TRUE, result |-> res, data |-> d]
Failure(message) ==
  Return(VerificationResult(FALSE, ErrorList(<<message>>), <<>>), JNull)

\* verifyDataProduct's result when validation failed
FailureResult_WarningsFromErrors(errors) ==
  VerificationResult(FALSE, ErrorList(errors), errors)
FailureResult(errors) == VerificationResult(FALSE, ErrorList(errors), <<>>)

\* verifyFile's return value after verifyDataProduct:
\*   { result, data: result.isValid ? data : null }
FileResult_AlwaysData(res, d) == Return(res, d)
FileResult_Validated(res, d) ==
  Return(res, IF res.isValid THEN result.data ELSE JNull)
FileResult(res, d) == Return(res, IF res.isValid THEN d ELSE JNull)

\* whether the try/catch of verifyFile encloses the code run for entry e
OuterCatch_Missing(e) == FALSE
OuterCatch(e) == e \in {"verifyFile", "verify", "display"}

\* the path verifyFile was called with: the caller's, or the one cli took
\* from the command line
Path == IF entry \in {"verify", "display"} THEN args[2] ELSE filePath

\* DataLoader has no file
NoLoad ==
  [phase |-> "idle", readable |-> FALSE, text |-> <<>>, called |-> FALSE,
   data |-> undefined, toast |-> "", touched |-> FALSE]

Init ==
  /\ entry = "none"
  /\ fs = [kind |-> "missing", text |-> <<>>]
  /\ strict = FALSE
  /\ pc = "idle"
  /\ fileContent = <<>>
  /\ data = undefined
  /\ result = NoResult
  /\ verification = NoVerification
  /\ ret = NoReturn
  /\ escaped = FALSE
  /\ stages = <<>>
  /\ cells = <<>>
  /\ input = undefined
  /\ processed = <<>>
  /\ warnings = <<>>
  /\ args = <<>>
  /\ exitCode = -1
  /\ printed = <<>>
  /\ formData = JObj(<<>>)
  /\ frames = <<>>
  /\ microtasks = <<>>
  /\ sinceReset = "none"
  /\ load = NoLoad
  /\ events = 0

\* a caller invokes verifyFile(filePath, {strict})
CallVerifyFile ==
  /\ pc = "idle"
  /\ \E f \in Files, s \in BOOLEAN : fs' = f /\ strict' = s
  /\ entry' = "verifyFile"
  /\ pc' = "existsSync"
  /\ UNCHANGED <<fileContent, data, result, verification, ret, escaped, stages>>
  /\ UNCHANGED <<normVars, outerVars>>

\* a caller invokes verifyDataProduct(data, {strict})
CallVerifyDataProduct ==
  /\ pc = "idle"
  /\ \E d \in Docs, s \in BOOLEAN : data' = d /\ strict' = s
  /\ entry' = "verifyDataProduct"
  /\ pc' = "validate"
  /\ UNCHANGED <<fs, fileContent, result, verification, ret, escaped, stages>>
  /\ UNCHANGED <<normVars, outerVars>>

ExistsSync_NoEarlyReturn ==
  /\ pc = "existsSync"
  /\ stages' = Append(stages, "exists")
  /\ pc' = "readFileSync"
  /\ UNCHANGED <<entry, fs, strict, fileContent, data, result, verification,
                 ret, escaped>>
  /\ UNCHANGED <<normVars, outerVars>>

\* verifyFile: if (!fs.existsSync(filePath)) return File not found
ExistsSync ==
  /\ pc = "existsSync"
  /\ stages' = Append(stages, "exists")
  /\ IF fs.kind = "missing"
       THEN /\ ret' = Failure("File not found: " \o Path)
            /\ pc' = "done"
       ELSE /\ pc' = "readFileSync"
            /\ UNCHANGED ret
  /\ UNCHANGED <<entry, fs, strict, fileContent, data, result, verification, escaped>>
  /\ UNCHANGED <<normVars, outerVars>>

\* verifyFile: fs.readFileSync(filePath, 'utf-8'); a failure to read is
\* caught by the outer catch
ReadFileSync ==
  /\ pc = "readFileSync"
  /\ stages' = Append(stages, "read")
  /\ IF fs.kind = "file"
       THEN /\ fileContent' = fs.text
            /\ pc' = "JSON.parse"
            /\ UNCHANGED <<ret, escaped>>
       ELSE /\ IF OuterCatch(entry)
                 THEN /\ ret' = Failure("Error during verification: "
                            \o "EISDIR: illegal operation on a directory, read")
                      /\ UNCHANGED escaped
                 ELSE escaped' = TRUE /\ UNCHANGED ret
            /\ pc' = "done"
            /\ UNCHANGED fileContent
  /\ UNCHANGED <<entry, fs, strict, data, result, verification>>
  /\ UNCHANGED <<normVars, outerVars>>

\* verifyFile: data = JSON.parse(fileContent), with its own catch; parsed is
\* what JSON.parse does on fileContent
JsonParseWith(parsed) ==
  /\ pc = "JSON.parse"
  /\ stages' = Append(stages, "parse")
  /\ IF parsed.ok
       THEN /\ data' = parsed.val
            /\ pc' = "validate"
            /\ UNCHANGED ret
       ELSE /\ ret' = Failure("Invalid JSON format: " \o "Unexpected token")
            /\ pc' = "done"
            /\ UNCHANGED data
  /\ UNCHANGED <<entry, fs, strict, fileContent, result, verification, escaped>>
  /\ UNCHANGED <<normVars, outerVars>>
JsonParse == JsonParseWith(JSONParse(fileContent))

LintEnabled_Always(options) == TRUE

\* verifyDataProduct: options.strict ? checkBestPractices(result.data) : []
LintEnabled(options) == options

\* verifyDataProduct: result = validateDataProductDescriptor(data), and the
\* branch on result.success; an exception is caught by verifyFile's outer
\* catch and leaves verifyDataProduct when that was called directly; r is
\* what validateDataProductDescriptor does on data
ValidateWith(r) ==
  /\ pc = "validate"
  /\ stages' = Append(stages, "validate")
  /\ LET threw == r.threw
     IN  IF threw
           THEN /\ pc' = "done"
                /\ IF OuterCatch(entry)
                     THEN /\ ret' = Failure("Error during verification: "
                                \o "Cannot read properties of undefined (reading 'push')")
                          /\ UNCHANGED escaped
                     ELSE escaped' = TRUE /\ UNCHANGED ret
                /\ UNCHANGED <<result, verification>>
         ELSE /\ result' = r.val
              /\ UNCHANGED <<ret, escaped>>
              /\ IF r.val.success
                   THEN IF LintEnabled(strict)
                          THEN pc' = "lint" /\ UNCHANGED verification
                          ELSE /\ verification' =
                                    VerificationResult(TRUE, NullErrors, <<>>)
                               /\ pc' = "return"
                   ELSE /\ verification' = FailureResult(r.val.errors)
                        /\ pc' = "return"
  /\ UNCHANGED <<entry, fs, strict, fileContent, data>>
  /\ UNCHANGED <<normVars, outerVars>>
Validate == ValidateWith(validateDataProductDescriptor(data))

\* verifyDataProduct: warnings = checkBestPractices(result.data)
Lint ==
  /\ pc = "lint"
  /\ stages' = Append(stages, "lint")
  /\ verification' =
       VerificationResult(TRUE, NullErrors, checkBestPractices(result.data))
  /\ pc' = "return"
  /\ UNCHANGED <<entry, fs, strict, fileContent, data, result, ret, escaped>>
  /\ UNCHANGED <<normVars, outerVars>>

\* verifyDataProduct returns; verifyFile returns
\*   { result, data: result.isValid ? data : null }
ReturnResult ==
  /\ pc = "return"
  /\ ret' = IF entry \in {"verifyFile", "verify", "display"}
              THEN FileResult(verification, data)
              ELSE Return(verification, undefined)
  /\ pc' = "done"
  /\ UNCHANGED <<entry, fs, strict, fileContent, data, result, verification,
                 escaped, stages>>
  /\ UNCHANGED <<normVars, outerVars>>

\* a caller invokes processSchema(schema) on a tree it holds
CallProcessSchema ==
  /\ pc = "idle"
  /\ \E t \in SchemaTrees :
       LET r == Load(<<>>, t)
       IN  cells' = r.heap /\ input' = r.ref
  /\ entry' = "processSchema"
  /\ pc' = "processSchema"
  /\ UNCHANGED <<fs, strict, fileContent, data, result, verification, ret,
                 escaped, stages, processed, warnings>>
  /\ UNCHANGED outerVars

\* processSchema runs and returns: on the caller's tree, then on the value
\* the previous call returned
ProcessSchema ==
  /\ pc = "processSchema"
  /\ Len(processed) < MaxApply
  /\ LET r == processSchema(cells,
                IF processed = <<>> THEN input ELSE processed[Len(processed)])
     IN  cells' = r.heap /\ processed' = Append(processed, r.ref)
  /\ UNCHANGED <<entry, fs, strict, pc, fileContent, data, result, verification,
                 ret, escaped, stages, input, warnings>>
  /\ UNCHANGED outerVars

\* a caller invokes checkBestPractices(descriptor) on a descriptor it holds
CallCheckBestPractices ==
  /\ pc = "idle"
  /\ \E d \in LintDocs : data' = d
  /\ entry' = "checkBestPractices"
  /\ pc' = "checkBestPractices"
  /\ UNCHANGED <<fs, strict, fileContent, result, verification, ret, escaped,
                 stages, cells, input, processed, warnings>>
  /\ UNCHANGED outerVars

\* checkBestPractices runs and returns its warnings
CheckBestPractices ==
  /\ pc = "checkBestPractices"
  /\ warnings' = checkBestPractices(data)
  /\ pc' = "done"
  /\ UNCHANGED <<entry, fs, strict, fileContent, data, result, verification,
                 ret, escaped, stages, cells, input, processed>>
  /\ UNCHANGED outerVars

\* a descriptor the linter has nothing to say about
CleanDescriptor ==
  Descriptor(S_semver,
             With(With(MinimalInfo, "description", S_text), "contactPoints",
                  JArr(<<JObj(<<P("name", S_text)>>)>>)),
             OutputPorts(<<With(With(MinimalEntity, "description", S_text),
                                "promises", JObj(<<>>))>>),
             undefined, undefined)

\* what the path of the command line names
CliFiles ==
  {[kind |-> "missing", text |-> <<>>],
   [kind |-> "directory", text |-> <<>>],
   [kind |-> "file", text |-> <<Tok("{", <<>>)>>],
   [kind |-> "file", text |-> Stringify(JObj(<<>>))],
   [kind |-> "file", text |-> Stringify(MinimalDescriptor)],
   [kind |-> "file", text |-> Stringify(CleanDescriptor)]}

\* the command lines: up to MaxArgs arguments
MaxArgs == 3
ArgTokens == {"verify", "display", "frobnicate", "--strict", "--help", filePath, ""}
ArgLists == SeqsUpTo(ArgTokens, MaxArgs)

Usage == "Usage: npx data-product-verifier <command> <file-path> [options]"
\* process.exit(code), or the end of cli() with nothing left to run
Exit(code, lines) ==
  /\ exitCode' = code
  /\ printed' = printed \o lines
  /\ pc' = "exited"

\* cli() up to the call of verifyCLI or displayCLI, and the first lines
\* those print before they call verifyFile
Cli ==
  /\ pc = "idle"
  /\ \E a \in ArgLists, f \in CliFiles :
       /\ args' = a
       /\ IF (\E i \in 1..Len(a) : a[i] = "--help") \/ Len(a) = 0
            THEN /\ Exit(0, <<Usage>>)
                 /\ entry' = "cli"
                 /\ UNCHANGED <<fs, strict>>
          ELSE IF Len(a) < 2 \/ a[2] = ""
            THEN /\ Exit(1, <<"Error: Missing file path", Usage>>)
                 /\ entry' = "cli"
                 /\ UNCHANGED <<fs, strict>>
          ELSE IF a[1] = "verify"
            THEN /\ entry' = "verify"
                 /\ strict' = (\E i \in 1..Len(a) : a[i] = "--strict")
                 /\ fs' = f
                 /\ printed' = <<"Verifying: " \o a[2]>>
                 /\ pc' = "existsSync"
                 /\ UNCHANGED exitCode
          ELSE IF a[1] = "display"
            THEN /\ entry' = "display"
                 /\ strict' = FALSE
                 /\ fs' = f
                 /\ printed' = <<"Displaying: " \o a[2]>>
                 /\ pc' = "existsSync"
                 /\ UNCHANGED exitCode
          ELSE /\ Exit(1, <<"Error: Unknown command '" \o a[1] \o "'", Usage>>)
               /\ entry' = "cli"
               /\ UNCHANGED <<fs, strict>>
  /\ UNCHANGED <<fileContent, data, result, verification, ret, escaped, stages>>
  /\ UNCHANGED <<normVars, uiVars>>

\* process.exit(success ? 0 : 1)
ExitCodeOf_Zero(success) == 0
ExitCodeOf(success) == IF success THEN 0 ELSE 1

\* verifyCLI after verifyFile returned, and process.exit(success ? 0 : 1)
VerifyCLI ==
  /\ pc = "done"
  /\ entry = "verify"
  /\ IF ret.result.isValid
       THEN Exit(ExitCodeOf(TRUE), <<"Verification successful!">>
                    \o (IF strict /\ Len(ret.result.warnings) > 0
                          THEN <<"Warnings (best practices):">>
                               \o [i \in 1..Len(ret.result.warnings) |->
                                     "- " \o ret.result.warnings[i]]
                        ELSE IF strict THEN <<"Best practices check passed">>
                        ELSE <<>>))
       ELSE Exit(ExitCodeOf(FALSE), <<"Verification failed!", "Errors:">>
                    \o (IF ret.result.errors.null THEN <<>>
                        ELSE [i \in 1..Len(ret.result.errors.list) |->
                                "- " \o ret.result.errors.list[i]]))
  /\ UNCHANGED <<entry, fs, strict, fileContent, data, result, verification,
                 ret, escaped, stages, args>>
  /\ UNCHANGED <<normVars, uiVars>>

\* displayCLI after verifyFile returned, and process.exit(success ? 0 : 1)
DisplayCLI ==
  /\ pc = "done"
  /\ entry = "display"
  /\ IF ~ret.result.isValid \/ ~Truthy(ret.data)
       THEN Exit(ExitCodeOf(FALSE), <<"Cannot display an invalid descriptor. "
                       \o "Please fix the verification errors first.", "Errors:">>
                    \o (IF ret.result.errors.null THEN <<>>
                        ELSE [i \in 1..Len(ret.result.errors.list) |->
                                "- " \o ret.result.errors.list[i]]))
       ELSE Exit(ExitCodeOf(TRUE), <<"DESCRIPTOR DISPLAY">>)
  /\ UNCHANGED <<entry, fs, strict, fileContent, data, result, verification,
                 ret, escaped, stages, args>>
  /\ UNCHANGED <<normVars, uiVars>>

\* ------------------------------------------------------------------------
\* The form: store.ts, DynamicForm.tsx, DataLoader.tsx and the templates.
\* One action is one task of the browser's event loop, or one microtask.
\* A task starts only when no microtask is waiting. React renders a change
\* of the store before the next task, so each handler sees the store's
\* current formData
\* ------------------------------------------------------------------------
MaxEvents == 3
MaxFrames == 2
Fields == {"a", "b"}
Typed == {JStr(<<"x">>), JStr(<<>>)}
\* what the persist middleware finds in localStorage
Persisted == {JObj(<<>>), JObj(<<P("a", S_text)>>)}

\* { ...formData }
Spread(fd) ==
  IF fd.t = "array"
    THEN JObj([i \in 1..Len(fd.v) |-> P(ToString(i - 1), fd.v[i])])
    ELSE fd

\* a user event: counted, and it is an edit made after the last reset
UserEvent ==
  /\ pc = "form"
  /\ microtasks = <<>>
  /\ events < MaxEvents
  /\ events' = events + 1
\* the store's formData is written while DataLoader awaits the file
Touch(l) == IF l.phase = "reading" THEN [l EXCEPT !.touched = TRUE] ELSE l
Edited == IF sinceReset = "none" THEN "none" ELSE "edited"

\* App renders DynamicForm for a schema; the store starts from what was
\* persisted
Mount ==
  /\ pc = "idle"
  /\ entry' = "form"
  /\ pc' = "form"
  /\ \E fd \in Persisted : formData' = fd
  /\ UNCHANGED <<frames, microtasks, sinceReset, load, events>>
  /\ UNCHANGED <<pipeVars, normVars, cliVars>>

\* BaseInputTemplate.handleLocalChange for the input of a top-level field:
\* the notification is left to requestAnimationFrame
HandleLocalChange ==
  /\ UserEvent
  /\ Len(frames) < MaxFrames
  /\ \E f \in Fields, newValue \in Typed :
       frames' = Append(frames, [field |-> f, value |-> newValue])
  /\ sinceReset' = Edited
  /\ UNCHANGED <<entry, pc, formData, microtasks, load>>
  /\ UNCHANGED <<pipeVars, normVars, cliVars>>

\* DynamicForm.handleChange(e): if (e && e.formData) the update of the
\* store is left to a microtask; an object is truthy
handleChange(e) == <<e>>

\* the callback of requestAnimationFrame: onChange(newValue); the form
\* puts the value into the form data it shows and calls handleChange
AnimationFrame ==
  /\ pc = "form"
  /\ microtasks = <<>>
  /\ frames # <<>>
  /\ microtasks' = handleChange(With(Spread(formData), Head(frames).field,
                                     Head(frames).value))
  /\ frames' = Tail(frames)
  /\ UNCHANGED <<entry, pc, formData, sinceReset, load, events>>
  /\ UNCHANGED <<pipeVars, normVars, cliVars>>

\* the microtask of handleChange: setFormData(e.formData)
Microtask ==
  /\ pc = "form"
  /\ microtasks # <<>>
  /\ formData' = Head(microtasks)
  /\ microtasks' = Tail(microtasks)
  /\ load' = Touch(load)
  /\ UNCHANGED <<entry, pc, frames, sinceReset, events>>
  /\ UNCHANGED <<pipeVars, normVars, cliVars>>

\* DynamicForm.handleReset: setFormData({}) and formRef.current.reset(),
\* which, where the form has it, puts the form back to its initial data
\* and reports that to handleChange
HandleReset ==
  /\ UserEvent
  /\ formData' = JObj(<<>>)
  /\ sinceReset' = "clean"
  /\ \E hasReset \in BOOLEAN :
       microtasks' = IF hasReset THEN handleChange(JObj(<<>>)) ELSE <<>>
  /\ load' = Touch(load)
  /\ UNCHANGED <<entry, pc, frames>>
  /\ UNCHANGED <<pipeVars, normVars, cliVars>>

\* the events ObjectFieldTemplate.handleJsonChange dispatches, and events
\* without detail or id
EventIds ==
  {undefined, JStr(<<"r", "o", "o", "t", "_", "a">>),
   JStr(<<"r", "o", "o", "t", "_", "a", "_", "b">>),
   JStr(<<"r", "o", "o", "t", "_">>), JStr(<<"c">>)}
EventValues == {JObj(<<P("k", S_text)>>), JArr(<<>>)}
Details ==
  {[detail |-> FALSE, id |-> undefined, value |-> undefined]}
  \cup {[detail |-> TRUE, id |-> i, value |-> v] : i \in EventIds, v \in EventValues}

\* id?.split('_').pop(); undefined is written ""
FieldName_First(id) ==
  IF id = undefined THEN "" ELSE Text(Split(id.v, "_")[1])
FieldName(id) ==
  IF id = undefined THEN ""
  ELSE Text(Split(id.v, "_")[Len(Split(id.v, "_"))])

\* handleJsonEditorChange(event)
HandleJsonEditorChangeOf(event) ==
  /\ UserEvent
  /\ IF event.detail /\ FieldName(event.id) # ""
       THEN /\ formData' = With(Spread(formData), FieldName(event.id), event.value)
            /\ load' = Touch(load)
       ELSE UNCHANGED <<formData, load>>
  /\ sinceReset' = Edited
  /\ UNCHANGED <<entry, pc, frames, microtasks>>
  /\ UNCHANGED <<pipeVars, normVars, cliVars>>
HandleJsonEditorChange == \E event \in Details : HandleJsonEditorChangeOf(event)

\* the files the user can choose, and what ajv does with the schema and the
\* data: there is no schema; compile fails; the data matches or does not
LoadTexts ==
  {<<Tok("{", <<>>)>>, Stringify(JNull), Stringify(JNum(1)), Stringify(JObj(<<>>)),
   Stringify(JObj(<<P("b", S_text)>>)), Stringify(JArr(<<S_text>>))}
LoadFiles ==
  {[readable |-> FALSE, text |-> <<>>]}
  \cup {[readable |-> TRUE, text |-> t] : t \in LoadTexts}
SchemaOutcomes == {"no schema", "compile throws", "valid", "invalid"}

\* DataLoader.handleFileChange up to await file.text(): without a file it
\* returns, with one it calls resetFormData first
HandleFileChange ==
  /\ UserEvent
  /\ load.phase # "reading"
  /\ \/ UNCHANGED <<formData, load>>
     \/ \E file \in LoadFiles :
          /\ formData' = JObj(<<>>)
          /\ load' = [NoLoad EXCEPT !.phase = "reading",
                                     !.readable = file.readable,
                                     !.text = file.text]
  /\ sinceReset' = Edited
  /\ UNCHANGED <<entry, pc, frames, microtasks>>
  /\ UNCHANGED <<pipeVars, normVars, cliVars>>

ParseToast == "Failed to parse JSON data. Please check the file format."
\* onDataLoaded(data): App keeps the data and passes it to DynamicForm,
\* whose effect puts it into the store when it has a key
onDataLoaded(d) == IF Len(d.v) > 0 THEN d ELSE formData
Caught == [load EXCEPT !.phase = "done", !.toast = ParseToast]

\* DataLoader.handleFileChange after await file.text(); data that reaches
\* onDataLoaded is the user's edit
FileRead ==
  /\ pc = "form"
  /\ microtasks = <<>>
  /\ load.phase = "reading"
  /\ IF ~load.readable \/ ~JSONParse(load.text).ok
       THEN load' = Caught /\ UNCHANGED formData
     ELSE IF JSONParse(load.text).val.t \notin {"object", "array"}
       THEN /\ load' = [load EXCEPT
                          !.phase = "done",
                          !.toast = "The uploaded file does not contain valid JSON object data"]
            /\ UNCHANGED formData
     ELSE \E ajv \in SchemaOutcomes :
            IF ajv = "compile throws"
              THEN load' = Caught /\ UNCHANGED formData
              ELSE /\ load' = [load EXCEPT
                                 !.phase = "done",
                                 !.called = TRUE,
                                 !.data = JSONParse(load.text).val,
                                 !.toast =
                                   CASE ajv = "no schema" -> "Form data loaded successfully"
                                     [] ajv = "valid" ->
                                          "Form data loaded and validated successfully"
                                     [] ajv = "invalid" ->
                                          "The uploaded data may not fully match the schema. "
                                          \o "Some validation errors might occur."]
                   /\ formData' = onDataLoaded(JSONParse(load.text).val)
  /\ sinceReset' = IF load'.called THEN Edited ELSE sinceReset
  /\ UNCHANGED <<entry, pc, frames, microtasks, events>>
  /\ UNCHANGED <<pipeVars, normVars, cliVars>>

Next ==
  \/ Mount
  \/ HandleLocalChange
  \/ AnimationFrame
  \/ Microtask
  \/ HandleReset
  \/ HandleJsonEditorChange
  \/ HandleFileChange
  \/ FileRead
  \/ Cli
  \/ VerifyCLI
  \/ DisplayCLI
  \/ CallProcessSchema
  \/ ProcessSchema
  \/ CallCheckBestPractices
  \/ CheckBestPractices
  \/ CallVerifyFile
  \/ CallVerifyDataProduct
  \/ ExistsSync
  \/ ReadFileSync
  \/ JsonParse
  \/ Validate
  \/ Lint
  \/ ReturnResult

Spec == Init /\ [][Next]_vars

\* ------------------------------------------------------------------------
\* Properties
\* ------------------------------------------------------------------------
Range(f) == {f[i] : i \in DOMAIN f}
IsPrefix(a, b) == Len(a) <= Len(b) /\ SubSeq(b, 1, Len(a)) = a
Returned_verifyFile == entry = "verifyFile" /\ ret.returned
FileNotFound == ErrorList(<<"File not found: " \o filePath>>)
ParseError == ErrorList(<<"Invalid JSON format: Unexpected token">>)

\* C1: verifyFile runs existence check, read, parse, validate, lint in this
\* order and returns at the first stage that fails: for a path that names
\* nothing the result is File not found and only the existence check has
\* run; for a text that is not JSON the result is Invalid JSON format and
\* neither validation nor linting has run; nothing runs after the return.
C1_StageOrder ==
  entry = "verifyFile" =>
    /\ IsPrefix(stages, <<"exists", "read", "parse", "validate", "lint">>)
    /\ ret.returned => pc = "done"
    /\ (pc = "done" /\ fs.kind = "missing") =>
         /\ ret.result.errors = FileNotFound
         /\ stages = <<"exists">>
    /\ (pc = "done" /\ fs.kind = "file" /\ ~JSONParse(fs.text).ok) =>
         /\ ret.result.errors = ParseError
         /\ stages = <<"exists", "read", "parse">>

C1_Witness ==
  /\ Returned_verifyFile
  /\ fs.kind = "file"
  /\ fs.text = <<Tok("{", <<>>)>>
  /\ ret.result.errors = ParseError

C3_UniformShape ==
  Returned_verifyFile =>
    /\ ret.result.isValid =>
         /\ ret.result.errors.null
         /\ ret.data = JSONParse(fs.text).val
         /\ ret.data # JNull
    /\ ~ret.result.isValid =>
         /\ ~ret.result.errors.null
         /\ ret.result.warnings = <<>>
         /\ ret.data = JNull

C3_Witness ==
  /\ Returned_verifyFile
  /\ ret.result.isValid
  /\ Len(ret.result.warnings) > 0
  /\ ret.data = MinimalDescriptor

InternalError(message) == ErrorList(<<"Error during verification: " \o message>>)

\* C4: no exception leaves verifyFile: whatever the path names and whatever
\* the text holds, a call that has finished has returned a result; a failure
\* to read and an exception raised while validating are each reported as
\* the single message Error during verification: ... of an invalid result.
C4_NothingEscapes ==
  entry = "verifyFile" =>
    /\ ~escaped
    /\ pc = "done" => ret.returned
    /\ (pc = "done" /\ fs.kind = "directory") =>
         /\ ~ret.result.isValid
         /\ ret.result.errors =
              InternalError("EISDIR: illegal operation on a directory, read")
    /\ (pc = "done" /\ "validate" \in Range(stages)
          /\ validateDataProductDescriptor(data).threw) =>
         /\ ~ret.result.isValid
         /\ ret.result.errors =
              InternalError("Cannot read properties of undefined (reading 'push')")

C4_Witness ==
  /\ Returned_verifyFile
  /\ "validate" \in Range(stages)
  /\ validateDataProductDescriptor(data).threw
  /\ ~ret.result.isValid

\* C5 (as claimed): when validation fails the list of error messages is
\* never empty.
C5_ErrorsNeverEmpty ==
  (pc = "return" /\ ~verification.isValid) =>
    Len(verification.errors.list) > 0

\* the dotted text of a path
RECURSIVE PathText(_)
PathText(path) ==
  IF Len(path) = 1 THEN path[1] ELSE path[1] \o "." \o PathText(Tail(path))

\* obj without the member at path
RECURSIVE RemoveField(_, _)
RemoveField(obj, path) ==
  IF Len(path) = 1 THEN Without(obj, path[1])
  ELSE With(obj, path[1], RemoveField(Get(obj, path[1]), Tail(path)))

RequiredFields ==
  {<<"dataProductDescriptor">>, <<"info">>, <<"interfaceComponents">>,
   <<"interfaceComponents", "outputPorts">>}

Accepts(schema, val) == ZParse(schema, val, <<>>).status = "valid"
ValidDocs == {d \in Docs : Accepts(dataProductDescriptorSchema, d)}
RemovedDocs == [path \in RequiredFields |-> {RemoveField(d, path) : d \in ValidDocs}]

\* C6: a valid descriptor from which one of dataProductDescriptor, info,
\* interfaceComponents, interfaceComponents.outputPorts was removed fails
\* validation with the message "<path of the field>: Required".
C6_RequiredFields ==
  \A path \in RequiredFields :
    (pc = "return" /\ data \in RemovedDocs[path]) =>
      /\ ~verification.isValid
      /\ (PathText(path) \o ": Required") \in Range(verification.errors.list)

C6_Witness ==
  /\ pc = "return"
  /\ data = RemoveField(MinimalDescriptor, <<"interfaceComponents", "outputPorts">>)
  /\ verification.errors = ErrorList(<<"interfaceComponents.outputPorts: Required">>)

\* the format-constrained string fields of Info
InfoFormats ==
  {<<"id", "isValidUuid", "id must be a valid UUID format">>,
   <<"fullyQualifiedName", "isValidFqn", FqnMessage>>,
   <<"entityType", "isValidAlphanumeric",
     "entityType must contain only alphanumeric characters">>,
   <<"name", "isValidCamelCase", "name must be in a valid format (camelCase)">>,
   <<"version", "isValidVersion", "version must follow semantic versioning format">>}

InfoOf(d) == IF d.t = "object" THEN Get(d, "info") ELSE undefined

\* C7: a string field of info that fails its format validator is reported
\* at info.<field> with the validator's message; info.version = "v1" gives
\* "info.version: version must follow semantic versioning format" and
\* info.name = "Sample" gives an error at info.name.
C7_FormatRejection ==
  (pc = "return" /\ InfoOf(data).t = "object") =>
    /\ \A c \in InfoFormats :
         LET val == Get(InfoOf(data), c[1])
         IN  (val.t = "string" /\ ~RunCheck(c[2], val)) =>
               /\ ~verification.isValid
               /\ ("info." \o c[1] \o ": " \o c[3]) \in Range(verification.errors.list)
    /\ Get(InfoOf(data), "version") = S_v1 =>
         "info.version: version must follow semantic versioning format"
           \in Range(verification.errors.list)
    /\ Get(InfoOf(data), "name") = S_Sample =>
         "info.name: name must be in a valid format (camelCase)"
           \in Range(verification.errors.list)

C7_Witness ==
  /\ pc = "return"
  /\ InfoOf(data).t = "object"
  /\ Get(InfoOf(data), "version") = S_v1
  /\ verification.errors =
       ErrorList(<<"info.version: version must follow semantic versioning format">>)

Validators ==
  {"isValidUuid", "isValidFqn", "isValidAlphanumeric", "isValidDomain",
   "isValidCamelCase", "isValidVersion", "isValidUri", "isValidUriReference"}

\* the optional format-constrained fields of an entity
EntityFormats ==
  {<<"id", "id must be a valid UUID format">>,
   <<"fullyQualifiedName", FqnMessage>>,
   <<"entityType", "entityType must contain only alphanumeric characters">>}

\* the entries of interfaceComponents.outputPorts of d, <<>> when there
\* is no such array
OutputPortsOf(d) ==
  LET ic == IF d.t = "object" THEN Get(d, "interfaceComponents") ELSE undefined
      ps == IF ic.t = "object" THEN Get(ic, "outputPorts") ELSE undefined
  IN  IF ps.t = "array" THEN ps.v ELSE <<>>

PortMessage(i, c) ==
  "interfaceComponents.outputPorts." \o ToString(i - 1) \o "." \o c[1] \o ": " \o c[2]

\* C8: every format validator is true of undefined; an output port that
\* has no id, fullyQualifiedName or entityType gets no format error for
\* that field, and one that has a string of the wrong shape there (and is
\* not a Reference) gets it.
C8_AbsentIsNoViolation ==
  /\ \A fn \in Validators : RunCheck(fn, undefined)
  /\ pc = "return" =>
       \A i \in 1..Len(OutputPortsOf(data)) : \A c \in EntityFormats :
         LET port == OutputPortsOf(data)[i]
         IN  /\ ~HasKey(port, c[1]) =>
                  PortMessage(i, c) \notin Range(verification.errors.list)
             /\ (HasKey(port, c[1]) /\ ~HasKey(port, "$ref")) =>
                  PortMessage(i, c) \in Range(verification.errors.list)

C8_Witness ==
  /\ pc = "return"
  /\ OutputPortsOf(data) = <<MinimalEntity>>
  /\ verification.isValid

\* C9: at every place typed T | Reference (port entries, the promises,
\* expectations and obligations of a port, component entries, the template
\* of a lifecycle task) a value that is valid for T or valid for Reference
\* is accepted.
C9_EitherBranch ==
  \A site \in UnionSites : \A val \in UnionVals :
    (pc = "return" /\ data = SiteDoc(site, val)
       /\ (Accepts(SiteSchema(site), val) \/ Accepts(referenceSchema, val))) =>
      verification.isValid

C9_Witness ==
  /\ pc = "return"
  /\ data = SiteDoc("outputPort", Reference)
  /\ ~Accepts(outputPortSchema, Reference)
  /\ verification.isValid

\* C10 (as claimed): a known definition field of a Promises, Expectations
\* or Obligations bag that holds a valid StandardDefinition or a valid
\* Reference is accepted.
C10_DefinitionOrReference ==
  \A b \in BagNames : \A f \in BagFields[b] : \A d \in {StandardDefinition, Reference} :
    (pc = "return" /\ data = SiteDoc(b, JObj(<<P(f, d)>>))
       /\ (Accepts(standardDefinitionSchema, d) \/ Accepts(referenceSchema, d))) =>
      verification.isValid

\* C10 (amended): each known definition field of a bag is optional and,
\* when present, is accepted exactly if it is a valid StandardDefinition; a
\* Reference in its place is rejected.
C10_DefinitionOnly ==
  \A b \in BagNames :
    /\ (pc = "return" /\ data = SiteDoc(b, JObj(<<>>))) => verification.isValid
    /\ \A f \in BagFields[b] : \A d \in {StandardDefinition, Reference} :
         (pc = "return" /\ data = SiteDoc(b, JObj(<<P(f, d)>>))) =>
           (verification.isValid <=> Accepts(standardDefinitionSchema, d))

C10_Witness ==
  /\ pc = "return"
  /\ data = SiteDoc("promises", JObj(<<P("api", Reference)>>))
  /\ Accepts(referenceSchema, Reference)
  /\ ~verification.isValid

\* the issues in the order format() processes them: the errors of a union
\* in place of the union's own issue
RECURSIVE FlatIssues(_)
FlatIssues(issues) ==
  IF issues = <<>> THEN <<>>
  ELSE (IF Head(issues).code = "invalid_union"
          THEN FlatIssues(Flatten(Head(issues).unionErrors))
          ELSE <<Head(issues)>>)
       \o FlatIssues(Tail(issues))

IssueText(issue) ==
  IF issue.path = <<>> THEN issue.message
  ELSE PathText(issue.path) \o ": " \o issue.message

\* the schemas a value at a node is parsed with, wrappers removed
RECURSIVE Resolve(_)
Resolve(s) ==
  CASE s.kind \in {"optional", "refine"} -> Resolve(s.inner)
    [] s.kind = "lazy" -> Resolve(s.getter)
    [] s.kind = "union" ->
         Flatten([i \in 1..Len(s.options) |-> Resolve(s.options[i])])
    [] OTHER -> <<s>>

ChildSchemas(ss, key) ==
  Flatten([i \in 1..Len(ss) |->
    CASE ss[i].kind = "object" ->
           Flatten([j \in 1..Len(ss[i].shape) |->
             IF ss[i].shape[j].k = key THEN Resolve(ss[i].shape[j].s) ELSE <<>>])
      [] ss[i].kind = "array" -> Resolve(ss[i].element)
      [] ss[i].kind = "record" -> Resolve(ss[i].valueType)
      [] OTHER -> <<>>])

RECURSIVE SchemasAt(_, _)
SchemasAt(ss, path) ==
  IF path = <<>> THEN ss ELSE SchemasAt(ChildSchemas(ss, Head(path)), Tail(path))

\* the keys the object schemas among ss declare, in declaration order
DeclaredKeys(ss) ==
  Flatten([i \in 1..Len(ss) |->
    IF ss[i].kind = "object"
      THEN [j \in 1..Len(ss[i].shape) |-> ss[i].shape[j].k] ELSE <<>>])

\* key a is declared before key b (first declarations)
DeclaredBefore(keys, a, b) ==
  \E i \in 1..Len(keys) :
    /\ keys[i] = a
    /\ \A j \in 1..i : keys[j] # b

RECURSIVE CommonLen(_, _)
CommonLen(p, q) ==
  IF p = <<>> \/ q = <<>> \/ Head(p) # Head(q) THEN 0
  ELSE 1 + CommonLen(Tail(p), Tail(q))

\* the paths of a list of messages, read back from the issues
PathsOf(list, issues) ==
  [k \in 1..Len(list) |->
     LET fi == FlatIssues(issues)
     IN  fi[CHOOSE i \in 1..Len(fi) : IssueText(fi[i]) = list[k]].path]

\* paths ps are in preorder: a node before its descendants, each subtree
\* contiguous, siblings under an object in declared key order and siblings
\* under an array by index
Preorder(ps) ==
  /\ \A i, j \in 1..Len(ps) :
       i < j =>
         LET c == CommonLen(ps[i], ps[j])
         IN  /\ ~(c = Len(ps[j]) /\ Len(ps[i]) > c)
             /\ (Len(ps[i]) > c /\ Len(ps[j]) > c) =>
                  LET ss   == SchemasAt(Resolve(dataProductDescriptorSchema),
                                        SubSeq(ps[i], 1, c))
                      keys == DeclaredKeys(ss)
                      a    == ps[i][c + 1]
                      b    == ps[j][c + 1]
                  IN  /\ (\E x \in 1..Len(keys) : keys[x] \in {a, b}) =>
                           DeclaredBefore(keys, a, b)
                      /\ (IsIndexKey(a) /\ IsIndexKey(b)
                            /\ \E x \in 1..Len(ss) : ss[x].kind = "array") =>
                           IndexVal(a) < IndexVal(b)
  /\ \A i, j, k \in 1..Len(ps) :
       (i < j /\ j < k) => CommonLen(ps[i], ps[k]) <= CommonLen(ps[i], ps[j])

\* C11: the list of error messages is a preorder traversal: every message
\* comes from an issue, the messages of a node precede those of its
\* descendants, the messages of one child are contiguous, and the children
\* of an object are visited in the order the schema declares their keys,
\* whatever the order of the keys in the document.
C11_PreorderBySchema ==
  (pc = "return" /\ ~verification.isValid) =>
    LET issues == ZParse(dataProductDescriptorSchema, data, <<>>).issues
        list   == verification.errors.list
    IN  /\ \A k \in 1..Len(list) :
             \E i \in 1..Len(FlatIssues(issues)) :
               IssueText(FlatIssues(issues)[i]) = list[k]
        /\ Preorder(PathsOf(list, issues))

C11_Witness ==
  /\ pc = "return"
  /\ data \in ReorderedDocs
  /\ verification.errors = ErrorList(<<
       "dataProductDescriptor: dataProductDescriptor must follow semantic versioning format",
       "info.name: name must be in a valid format (camelCase)",
       "info.version: version must follow semantic versioning format",
       "info.owner.id: Required",
       "interfaceComponents.outputPorts: Required">>)

\* the value at a path of keys of a document, undefined when there is none
RECURSIVE ValueAt(_, _)
ValueAt(d, path) ==
  IF path = <<>> THEN d
  ELSE IF d.t = "object" THEN ValueAt(Get(d, Head(path)), Tail(path))
  ELSE IF d.t = "array" /\ IsIndexKey(Head(path)) /\ IndexVal(Head(path)) < Len(d.v)
    THEN ValueAt(d.v[IndexVal(Head(path)) + 1], Tail(path))
  ELSE undefined

\* sequences of a descriptor and the schema of their elements
SequenceSites ==
  {[path |-> <<"interfaceComponents", "outputPorts">>,
    element |-> ZUnion(<<outputPortSchema, referenceSchema>>)],
   [path |-> <<"tags">>, element |-> ZString],
   [path |-> <<"info", "contactPoints">>, element |-> contactPointSchema]}

\* C12: every element of a sequence is validated: an element at position
\* i (from 0) that its element schema does not accept makes the descriptor
\* invalid, and each of its violations is reported at
\* <path of the sequence>.<i>.<path inside the element>.
C12_SequenceIndex ==
  pc = "return" =>
    \A site \in SequenceSites :
      LET xs == ValueAt(data, site.path)
      IN  xs.t = "array" =>
            \A i \in 1..Len(xs.v) :
              LET r  == ZParse(site.element, xs.v[i], <<>>)
                  fi == FlatIssues(r.issues)
              IN  r.status # "valid" =>
                    /\ ~verification.isValid
                    /\ \A n \in 1..Len(fi) :
                         (PathText(site.path \o <<ToString(i - 1)>> \o fi[n].path)
                            \o ": " \o fi[n].message)
                           \in Range(verification.errors.list)

C12_Witness ==
  /\ pc = "return"
  /\ OutputPortsOf(data) = <<MinimalEntity, JObj(<<>>)>>
  /\ verification.errors = ErrorList(<<
       "interfaceComponents.outputPorts.1.name: Required",
       "interfaceComponents.outputPorts.1.version: Required",
       "interfaceComponents.outputPorts.1.$ref: Required">>)

\* mappings of a descriptor and the schema of their values
MappingSites ==
  {[path |-> <<"components", "outputPorts">>,
    valueType |-> ZUnion(<<outputPortSchema, referenceSchema>>)],
   [path |-> <<"internalComponents", "lifecycleInfo">>,
    valueType |-> ZArray(lifecycleTaskInfoSchema)]}

\* C13: every value of a mapping is validated: a value stored under key k
\* that the value schema does not accept makes the descriptor invalid, and
\* each of its violations is reported at
\* <path of the mapping>.<k>.<path inside the value>, for every key k.
C13_MapKey ==
  pc = "return" =>
    \A site \in MappingSites :
      LET m == ValueAt(data, site.path)
      IN  m.t = "object" =>
            \A i \in 1..Len(m.v) :
              LET r  == ZParse(site.valueType, m.v[i].v, <<>>)
                  fi == FlatIssues(r.issues)
              IN  r.status # "valid" =>
                    /\ ~verification.isValid
                    /\ \A n \in 1..Len(fi) :
                         (PathText(site.path \o <<m.v[i].k>> \o fi[n].path)
                            \o ": " \o fi[n].message)
                           \in Range(verification.errors.list)

\* structural equality of values: the order of an object's keys does not
\* count
RECURSIVE StructEq(_, _)
StructEq(a, b) ==
  /\ a.t = b.t
  /\ CASE a.t = "object" ->
            /\ Range(Keys(a)) = Range(Keys(b))
            /\ \A key \in Range(Keys(a)) : StructEq(Get(a, key), Get(b, key))
       [] a.t = "array" ->
            /\ Len(a.v) = Len(b.v)
            /\ \A i \in 1..Len(a.v) : StructEq(a.v[i], b.v[i])
       [] OTHER -> a = b

\* what remains of a value that schema s accepts when the keys that a
\* record which is not passthrough does not declare are removed; a value
\* of a union is taken as a value of the first option that accepts it
RECURSIVE Kept(_, _)
Kept(s, val) ==
  CASE s.kind \in {"optional", "refine"} -> Kept(s.inner, val)
    [] s.kind = "lazy" -> Kept(s.getter, val)
    [] s.kind = "union" ->
         IF \E i \in 1..Len(s.options) : Accepts(s.options[i], val)
           THEN Kept(s.options[CHOOSE i \in 1..Len(s.options) :
                                 /\ Accepts(s.options[i], val)
                                 /\ \A h \in 1..(i - 1) : ~Accepts(s.options[h], val)],
                     val)
           ELSE val
    [] s.kind = "array" /\ val.t = "array" ->
         JArr([i \in 1..Len(val.v) |-> Kept(s.element, val.v[i])])
    [] s.kind = "record" /\ val.t = "object" ->
         JObj([i \in 1..Len(val.v) |-> P(val.v[i].k, Kept(s.valueType, val.v[i].v))])
    [] s.kind = "object" /\ val.t = "object" ->
         LET declared(key) == \E j \in 1..Len(s.shape) : s.shape[j].k = key
             field(key) == s.shape[CHOOSE j \in 1..Len(s.shape) : s.shape[j].k = key].s
         IN  JObj(SelectPairs(
               [i \in 1..Len(val.v) |->
                  IF declared(val.v[i].k)
                    THEN P(val.v[i].k, Kept(field(val.v[i].k), val.v[i].v))
                    ELSE val.v[i]],
               [i \in 1..Len(val.v) |->
                  declared(val.v[i].k) \/ s.unknownKeys = "passthrough"]))
    [] OTHER -> val

RECURSIVE SetAt(_, _, _)
SetAt(d, path, val) ==
  IF path = <<>> THEN val
  ELSE IF d.t = "array"
    THEN JArr([i \in 1..Len(d.v) |->
                 IF i = IndexVal(Head(path)) + 1
                   THEN SetAt(d.v[i], Tail(path), val) ELSE d.v[i]])
  ELSE With(d, Head(path), SetAt(Get(d, Head(path)), Tail(path), val))

\* the places of passthrough records in a descriptor: Info, Owner,
\* Components, and the output ports and their promises
PassthroughPaths ==
  {<<"info">>, <<"info", "owner">>, <<"components">>}
  \cup {<<"interfaceComponents", "outputPorts", ToString(i)>> : i \in 0..MaxPorts}
  \cup {<<"interfaceComponents", "outputPorts", ToString(i), "promises">> :
          i \in 0..MaxPorts}

ExtraKeys == {"x-extra", "componentGroup"}
ExtraValues == {JNull, JObj(<<P("name", JNum(1))>>)}

\* the documents that differ from d in one key, not declared by any schema
\* of its place, added to one passthrough record (a record with $ref is a
\* Reference)
ExtraKeyVariants(d) ==
  {[path |-> p, key |-> key, val |-> val,
    doc |-> SetAt(d, p, With(ValueAt(d, p), key, val))] :
     p \in {q \in PassthroughPaths :
              ValueAt(d, q).t = "object" /\ ~HasKey(ValueAt(d, q), "$ref")},
     key \in ExtraKeys, val \in ExtraValues}

C16_InputUnchanged ==
  [][/\ (pc \in {"validate", "lint"} => data' = data)
     /\ (pc = "processSchema" =>
           /\ input' = input
           /\ Len(cells') >= Len(cells)
           /\ \A a \in 1..Len(cells) : cells'[a] = cells[a])]_vars

C16_Witness ==
  /\ pc = "processSchema"
  /\ Len(processed) = 1
  /\ Tree(cells, input) = OneOf(RefTo(Sentinel), RefTo(S_ref))
  /\ Tree(cells, processed[1]) = RefTo(S_ref)
  /\ processed[1] # input

\* C20: normalization is idempotent: for every input tree t,
\* processSchema(processSchema(t)) is structurally equal to processSchema(t).
C20_Idempotent ==
  (pc = "processSchema" /\ Len(processed) >= 2) =>
    StructEq(Tree(cells, processed[2]), Tree(cells, processed[1]))

\* C17: the linter runs only under strict mode. When strict is unset or
\* false the linter is not invoked and the result's warnings are empty; when
\* strict is true and the descriptor is valid, the warnings are exactly what
\* checkBestPractices gives for the validated descriptor.
C17_StrictGatesLinter ==
  (entry \in {"verifyDataProduct", "verifyFile"} /\ pc \in {"return", "done"}) =>
    /\ ~strict =>
         /\ \A i \in 1..Len(stages) : stages[i] # "lint"
         /\ verification.warnings = <<>>
    /\ (strict /\ verification.isValid) =>
         /\ stages # <<>> /\ stages[Len(stages)] = "lint"
         /\ verification.warnings =
              checkBestPractices(validateDataProductDescriptor(data).val.data)
    /\ ~verification.isValid => verification.warnings = <<>>

C17_Witness ==
  /\ entry = "verifyDataProduct"
  /\ pc = "return"
  /\ strict
  /\ verification.isValid
  /\ Len(verification.warnings) >= 2
  /\ stages = <<"validate", "lint">>

\* the runs of the linter that have returned in this state: the descriptor
\* it was given and the list it returned
LintRuns ==
  (IF entry = "checkBestPractices" /\ pc = "done"
     THEN {[d |-> data, w |-> warnings]} ELSE {})
  \cup (IF /\ entry \in {"verifyDataProduct", "verifyFile"}
           /\ pc = "return" /\ strict /\ verification.isValid
          THEN {[d |-> result.data, w |-> verification.warnings]} ELSE {})
LintPortsOf(d) == Get(Get(d, "interfaceComponents"), "outputPorts").v
Absent(o, key) == Get(o, key) = undefined
\* the label of the port at 1-based position n when positions count from base
PortLabel(port, n, base) ==
  IF Truthy(Get(port, "name")) THEN Text(Get(port, "name").v)
  ELSE "#" \o ToString(n - 1 + base)
DescriptionWarning(label) == "Missing description for output port " \o label
PromisesWarning(label) == "Missing promises in output port " \o label
InfoWarning == "Missing data product description in info"
ContactWarning == "No contact points defined for the data product"
\* the per-port rule with positions counted from base
PortRule(base) ==
  \A run \in LintRuns :
    LET ports == LintPortsOf(run.d)
        W == Range(run.w)
        NonRef == {n \in 1..Len(ports) : ~HasKey(ports[n], "$ref")}
    IN  /\ \A n \in NonRef :
             /\ Absent(ports[n], "description") =>
                  DescriptionWarning(PortLabel(ports[n], n, base)) \in W
             /\ Absent(ports[n], "promises") =>
                  PromisesWarning(PortLabel(ports[n], n, base)) \in W
        /\ \A w \in W \ {InfoWarning, ContactWarning} :
             \E n \in NonRef :
               w \in {DescriptionWarning(PortLabel(ports[n], n, base)),
                      PromisesWarning(PortLabel(ports[n], n, base))}

\* C18: for each output port that is not a Reference the linter warns about
\* a missing description and about missing promises, naming the port by its
\* name or, without a name, by "#" and its 1-based position; Reference
\* entries produce no warning.
C18_PortWarningsOneBased == PortRule(1)

\* o has no member key, or (when emptyCounts) an empty string under it
Lacks(o, key, emptyCounts) ==
  Absent(o, key) \/ (emptyCounts /\ Get(o, key) = JStr(<<>>))
\* the list the linter is to return for descriptor d: the info warning, the
\* warnings of each port that is not a Reference in port order, description
\* before promises, then the contact point warning
ExpectedWarnings(d, emptyCounts) ==
  LET info == Get(d, "info")
      ports == LintPortsOf(d)
      cps == Get(info, "contactPoints")
      OfPort(n) ==
        IF HasKey(ports[n], "$ref") THEN <<>>
        ELSE (IF Lacks(ports[n], "description", TRUE)
                THEN <<DescriptionWarning(PortLabel(ports[n], n, 0))>> ELSE <<>>)
             \o (IF Absent(ports[n], "promises")
                   THEN <<PromisesWarning(PortLabel(ports[n], n, 0))>> ELSE <<>>)
  IN  (IF Lacks(info, "description", emptyCounts) THEN <<InfoWarning>> ELSE <<>>)
      \o Flatten([n \in 1..Len(ports) |-> OfPort(n)])
      \o (IF cps = undefined \/ cps.v = <<>> THEN <<ContactWarning>> ELSE <<>>)

\* C19: the linter never fails and its output is order-stable: the info
\* warning exactly when info.description is absent, then the per-port
\* warnings in port order (description before promises), then the contact
\* point warning exactly when info.contactPoints is absent or empty; a fully
\* described descriptor yields the empty list.
C19_LinterOutput ==
  \A run \in LintRuns : ~escaped /\ run.w = ExpectedWarnings(run.d, FALSE)

\* C19 (amended): as C19, with the info warning emitted exactly when
\* info.description is absent or is the empty string.
C19_LinterOutputEmptyIsMissing ==
  \A run \in LintRuns : ~escaped /\ run.w = ExpectedWarnings(run.d, TRUE)

C19_Witness ==
  \E run \in LintRuns :
    /\ Get(Get(run.d, "info"), "description") = JStr(<<>>)
    /\ Len(run.w) = 4
    /\ run.w[1] = InfoWarning
    /\ run.w[4] = ContactWarning

\* the tree processSchema returns for the tree t
Normalized(t) ==
  LET l == Load(<<>>, t)
      r == processSchema(l.heap, l.ref)
  IN  Tree(r.heap, r.ref)

IsObject(t) == t.t = "object"
IsArray(t) == t.t = "array"
IsLeaf(t) == ~IsObject(t) /\ ~IsArray(t)
\* a reference object: an object with a $ref key
IsReferenceObject(t) == IsObject(t) /\ HasKey(t, "$ref")
\* the object has a oneOf of exactly two reference objects
TwoRefOneOf(t) ==
  /\ IsObject(t)
  /\ HasKey(t, "oneOf")
  /\ IsArray(Get(t, "oneOf"))
  /\ Len(Get(t, "oneOf").v) = 2
  /\ \A i \in 1..2 : IsReferenceObject(Get(t, "oneOf").v[i])
\* the object has a oneOf array that is not one of two reference objects
OtherOneOf(t) ==
  /\ IsObject(t)
  /\ HasKey(t, "oneOf")
  /\ IsArray(Get(t, "oneOf"))
  /\ ~TwoRefOneOf(t)

\* the nodes of the tree t that are not inside a collapsed node, each with
\* the node of the result r at the same place
RECURSIVE Visited(_, _)
Visited(t, r) ==
  {<<t, r>>} \cup
  (IF IsArray(t) /\ IsArray(r) /\ Len(t.v) = Len(r.v)
     THEN UNION {Visited(t.v[i], r.v[i]) : i \in 1..Len(t.v)}
   ELSE IF IsObject(t) /\ IsObject(r) /\ ~TwoRefOneOf(t)
     THEN UNION {Visited(t.v[i].v, Get(r, t.v[i].k)) :
                   i \in {j \in 1..Len(t.v) : HasKey(r, t.v[j].k)}}
   ELSE {})

\* the nodes of the schema parsed from JSON that the first call normalized
Normalizations ==
  IF pc = "processSchema" /\ processed # <<>>
    THEN Visited(Tree(cells, input), Tree(cells, processed[1]))
    ELSE {}

Chosen(t) ==
  LET first  == Get(Get(t, "oneOf").v[1], "$ref")
      second == Get(Get(t, "oneOf").v[2], "$ref")
  IN  IF first = Sentinel THEN second ELSE first

C23_OtherOneOfKept ==
  \A n \in Normalizations :
    OtherOneOf(n[1]) =>
      /\ IsObject(n[2])
      /\ Keys(n[2]) = Keys(n[1])
      /\ \A i \in 1..Len(n[1].v) : n[2].v[i].v = Normalized(n[1].v[i].v)
      /\ Len(Get(n[2], "oneOf").v) = Len(Get(n[1], "oneOf").v)
\* the same for the objects without a key the assignment of line 58 drops
C23_OtherOneOfKeptOwn ==
  \A n \in Normalizations :
    (OtherOneOf(n[1]) /\ ~HasKey(n[1], "__proto__")) =>
      /\ IsObject(n[2])
      /\ Keys(n[2]) = Keys(n[1])
      /\ \A i \in 1..Len(n[1].v) : n[2].v[i].v = Normalized(n[1].v[i].v)
      /\ Len(Get(n[2], "oneOf").v) = Len(Get(n[1], "oneOf").v)
C23_Witness ==
  \E n \in Normalizations :
    /\ n[1] = OneOf(OneOf(RefTo(S_ref), RefTo(S_bad)), JNull)
    /\ n[2] = OneOf(RefTo(S_ref), JNull)

\* C24: outside collapsed nodes a leaf is unchanged, an array maps to an
\* array of the same length whose i-th element is the normalization of the
\* input's i-th element, and a non-collapsing object maps to an object with
\* exactly the same keys whose values are the normalizations of the input's
C24_StructurePreserved ==
  \A n \in Normalizations :
    /\ IsLeaf(n[1]) => n[2] = n[1]
    /\ IsArray(n[1]) =>
         /\ IsArray(n[2])
         /\ Len(n[2].v) = Len(n[1].v)
         /\ \A i \in 1..Len(n[1].v) : n[2].v[i] = Normalized(n[1].v[i])
    /\ (IsObject(n[1]) /\ ~TwoRefOneOf(n[1])) =>
         /\ IsObject(n[2])
         /\ Keys(n[2]) = Keys(n[1])
         /\ \A i \in 1..Len(n[1].v) : n[2].v[i].v = Normalized(n[1].v[i].v)
\* the same for the objects without a key the assignment of line 58 drops
C24_StructurePreservedOwn ==
  \A n \in Normalizations :
    /\ IsLeaf(n[1]) => n[2] = n[1]
    /\ IsArray(n[1]) =>
         /\ IsArray(n[2])
         /\ Len(n[2].v) = Len(n[1].v)
         /\ \A i \in 1..Len(n[1].v) : n[2].v[i] = Normalized(n[1].v[i])
    /\ (IsObject(n[1]) /\ ~TwoRefOneOf(n[1]) /\ ~HasKey(n[1], "__proto__")) =>
         /\ IsObject(n[2])
         /\ Keys(n[2]) = Keys(n[1])
         /\ \A i \in 1..Len(n[1].v) : n[2].v[i].v = Normalized(n[1].v[i].v)

\* every key of the object raw, at the root and in the objects below it, is
\* a key of the object kept at the same place
RECURSIVE KeepsKeys(_, _)
KeepsKeys(raw, kept) ==
  IF IsObject(raw)
    THEN /\ IsObject(kept)
         /\ \A i \in 1..Len(raw.v) :
              /\ HasKey(kept, raw.v[i].k)
              /\ KeepsKeys(raw.v[i].v, Get(kept, raw.v[i].k))
  ELSE IF IsArray(raw)
    THEN /\ IsArray(kept)
         /\ Len(kept.v) = Len(raw.v)
         /\ \A i \in 1..Len(raw.v) : KeepsKeys(raw.v[i], kept.v[i])
  ELSE kept = raw

\* C28: on success verifyFile returns as data the value JSON.parse produced,
\* not the value the validation returned: every key of the file is in the
\* returned data, also a key no schema declares, and the data differs from
\* the validated value whenever validation stripped a key; data is non-null
\* exactly when result.isValid
C28_RawData ==
  Returned_verifyFile =>
    /\ (ret.data # JNull) <=> ret.result.isValid
    /\ ret.result.isValid =>
         /\ ret.data = data
         /\ data = JSONParse(fileContent).val
         /\ KeepsKeys(JSONParse(fileContent).val, ret.data)
         /\ ~KeepsKeys(data, result.data) => ret.data # result.data
C28_Witness ==
  /\ Returned_verifyFile
  /\ ret.result.isValid
  /\ HasKey(ret.data, "x-extra")
  /\ HasKey(Get(ret.data, "info"), "x-extra")
  /\ ~HasKey(result.data, "x-extra")

\* node runs cli() and what it calls to the end: the code is synchronous
\* and nothing else is scheduled. Parsed and Validated hold, for the files
\* of the command line, what JsonParse and Validate compute
CliTexts == {f.text : f \in {g \in CliFiles : g.kind = "file"}}
ParsedTexts == {<<t, JSONParse(t)>> : t \in CliTexts}
Parsed(t) == (CHOOSE p \in ParsedTexts : p[1] = t)[2]
ValidatedDocs ==
  {<<p[2].val, validateDataProductDescriptor(p[2].val)>> :
     p \in {q \in ParsedTexts : q[2].ok}}
Validated(d) == (CHOOSE p \in ValidatedDocs : p[1] = d)[2]
CliRun ==
  /\ entry \in {"verify", "display"}
  /\ \/ ExistsSync
     \/ ReadFileSync
     \/ JsonParseWith(Parsed(fileContent))
     \/ ValidateWith(Validated(data))
     \/ Lint
     \/ ReturnResult
     \/ VerifyCLI
     \/ DisplayCLI
CliSpec == Init /\ [][Next]_vars /\ WF_vars(CliRun)

\* the file the path names exists, parses and validates
FileIsValid ==
  /\ fs.kind = "file"
  /\ JSONParse(fs.text).ok
  /\ ~validateDataProductDescriptor(JSONParse(fs.text).val).threw
  /\ validateDataProductDescriptor(JSONParse(fs.text).val).val.success
WarningsPrinted ==
  \E i \in 1..Len(printed) : printed[i] = "Warnings (best practices):"

\* C25: verify <path> [--strict] ends the process, with exit code 0 exactly
\* when the file at the path exists, parses and validates and with 1
\* otherwise; warnings do not change the exit code and are printed only
\* with --strict
C25_VerifyExitCode ==
  /\ [](entry = "verify" =>
          /\ exitCode \in {-1, 0, 1}
          /\ (exitCode = -1) <=> (pc # "exited")
          /\ exitCode = 0 => FileIsValid
          /\ exitCode = 1 => ~FileIsValid
          /\ WarningsPrinted =>
               /\ strict
               /\ \E i \in 1..Len(args) : args[i] = "--strict"
               /\ exitCode = 0)
  /\ (entry = "verify") ~> (pc = "exited")
C25_Witness ==
  /\ entry = "verify"
  /\ args = <<"verify", filePath, "--strict">>
  /\ pc = "exited"
  /\ exitCode = 0
  /\ WarningsPrinted
  /\ Len(printed) > 3

\* cli was called with the command line args
CliCalled == entry \in {"cli", "verify", "display"}
NoHelp == \A i \in 1..Len(args) : args[i] # "--help"
IsOption(arg) == arg \in {"--strict", "--help"}
UnknownCommand == Len(args) >= 1 /\ args[1] \notin {"verify", "display"}
\* the command is followed by nothing or only by options
MissingPath == Len(args) >= 1 /\ \A i \in 2..Len(args) : IsOption(args[i])
\* there is no second argument, or it is the empty string
NoSecondArgument == Len(args) = 1 \/ (Len(args) >= 2 /\ args[2] = "")
UsageError ==
  /\ pc = "exited"
  /\ exitCode = 1
  /\ stages = <<>>
  /\ Len(printed) = 2
  /\ printed[1] \in {"Error: Missing file path",
                     "Error: Unknown command '" \o args[1] \o "'"}
  /\ printed[2] = Usage

\* C26: for every command line without --help, an unknown command or a
\* missing path makes cli print an error and the usage and exit with 1
\* without running the pipeline, also when the command is followed only by
\* an option (verify --strict) and when an unknown command has no path
C26_UsageErrors ==
  (CliCalled /\ NoHelp /\ (UnknownCommand \/ MissingPath)) => UsageError
\* the same with the path taken by position, as cli takes it
C26_UsageErrorsByPosition ==
  (CliCalled /\ NoHelp /\ (UnknownCommand \/ NoSecondArgument)) => UsageError
C26_Witness ==
  /\ CliCalled
  /\ args = <<"frobnicate">>
  /\ UsageError

\* ------------------------------------------------------------------------
\* The form
\* ------------------------------------------------------------------------
Empty == JObj(<<>>)

\* C27: after handleReset the store's formData is {} and stays {} until the
\* user makes a new edit, whatever change notifications were waiting in
\* requestAnimationFrame or in a microtask when Reset was clicked
C27_ResetHolds == sinceReset = "clean" => formData = Empty

\* handleReset itself leaves {} in the store, and once no callback is waiting
\* after a reset the store keeps {} until the next edit
C27_ResetClears ==
  [][/\ HandleReset => formData' = Empty
     /\ sinceReset = "clean" /\ formData = Empty /\ frames = <<>>
          /\ Range(microtasks) \subseteq {Empty} /\ sinceReset' = "clean"
          => formData' = Empty]_vars

\* the text after the last "_" of a string
LastSegment(cs) ==
  LET bars == {i \in 1..Len(cs) : cs[i] = "_"}
      from == IF bars = {} THEN 1
              ELSE 1 + CHOOSE i \in bars : \A j \in bars : j <= i
  IN  SubSeq(cs, from, Len(cs))
\* the top-level keys of a value of the store
TopKeys(fd) == {Spread(fd).v[i].k : i \in 1..Len(Spread(fd).v)}
Named(event) ==
  IF event.detail /\ event.id # undefined THEN Text(LastSegment(event.id.v))
  ELSE ""

\* C30: a json-editor-change event with detail {id, value} sets the top-level
\* key named by the last "_"-separated segment of id to value and keeps every
\* other top-level key with its value; an event without detail, or with an
\* empty field name, changes nothing
C30_OneKey ==
  [][\A event \in Details :
       HandleJsonEditorChangeOf(event) =>
         IF Named(event) = "" THEN formData' = formData
         ELSE /\ formData'.t = "object"
              /\ TopKeys(formData') = TopKeys(formData) \cup {Named(event)}
              /\ Get(formData', Named(event)) = event.value
              /\ \A key \in TopKeys(formData) \ {Named(event)} :
                   Get(formData', key) = Get(Spread(formData), key)]_vars

\* an event for field a has put its value beside the key b of a loaded file
C30_Witness ==
  /\ pc = "form"
  /\ formData.t = "object"
  /\ HasKey(formData, "b")
  /\ Get(formData, "b") = S_text
  /\ HasKey(formData, "a")
  /\ Get(formData, "a") \in EventValues

\* the file DataLoader was given parses to a non-null object or array
LoadedObject(l) ==
  /\ l.readable
  /\ JSONParse(l.text).ok
  /\ JSONParse(l.text).val.t \in {"object", "array"}
\* a step in which handleFileChange ends
LoadEnds == load.phase = "reading" /\ load'.phase = "done"

\* C29: DataLoader calls resetFormData before it reads the file; for a file
\* that is not valid JSON or not a JSON object the store's formData ends as
\* {} and onDataLoaded is not called; for every parsed non-null object or
\* array onDataLoaded is called, whether or not the data matches the schema
C29_LoadContract ==
  [][/\ load.phase # "reading" /\ load'.phase = "reading" => formData' = Empty
     /\ LoadEnds /\ ~LoadedObject(load) =>
          /\ ~load'.called
          /\ ~load.touched => formData' = Empty
     /\ LoadEnds /\ LoadedObject(load) =>
          /\ load'.called
          /\ load'.data = JSONParse(load.text).val]_vars

\* the same, where onDataLoaded may also be left out for a parsed object
\* when the catch block reports a failure
C29_LoadContractCaught ==
  [][/\ load.phase # "reading" /\ load'.phase = "reading" => formData' = Empty
     /\ LoadEnds /\ ~LoadedObject(load) =>
          /\ ~load'.called
          /\ ~load.touched => formData' = Empty
     /\ LoadEnds /\ LoadedObject(load) /\ load'.toast # ParseToast =>
          /\ load'.called
          /\ load'.data = JSONParse(load.text).val]_vars

\* a parsed object was not handed to onDataLoaded
C29_Witness ==
  /\ load.phase = "done"
  /\ LoadedObject(load)
  /\ ~load.called
  /\ load.toast = ParseToast
====
